---- MODULE Spec2Model ----
(***************************************************************************)
(* Model of the curriculum import of zad_learn:                            *)
(*   helpers/curriculum_upsert.py  upsert_curriculum(data, request)        *)
(*   views.py  CurriculumViewSet.upsert / generate / perform_create        *)
(*   models.py Curriculum, Chapter, Lesson, Assessment, Materials, Question*)
(*                                                                         *)
(* A Python dict is a record whose DOMAIN is the set of keys present, so   *)
(* d["k"] raises KeyError when "k" is not in DOMAIN d and d.get("k", x)    *)
(* is Get(d, "k", x).  A Python list is a sequence; list index idx of the  *)
(* code (0-based) is idx + 1 here.  JSON payloads are strings.             *)
(*                                                                         *)
(* The store is PostgreSQL (models.py uses ArrayField).  Every request     *)
(* handler is a worker that runs one statement per step; the handlers      *)
(* decorated with transaction.atomic write rows that stay invisible to the *)
(* other workers until the handler returns (READ COMMITTED), and that are  *)
(* removed when the transaction is rolled back.  Row identifiers come from *)
(* one sequence per table, which is shared by all workers and is never     *)
(* rolled back.                                                            *)
(***************************************************************************)
EXTENDS Integers, Sequences, FiniteSets, TLC

\* ---------------------------------------------------------------- bounds
NumWorkers == 2
MaxCalls == 2

VARIABLES db, nextId, committed, calls, pc, req, loc, log, stream

vars == <<db, nextId, committed, calls, pc, req, loc, log, stream>>

\* The variables of the curriculum endpoints.
store == <<db, nextId, committed, calls, pc, req, loc, log>>

Workers == 1..NumWorkers

\* ------------------------------------------------------- Python helpers
Has(d, k) == k \in DOMAIN d

Get(d, k, default) == IF k \in DOMAIN d THEN d[k] ELSE default

None == "None"
NoneInt == 0 - 1
EmptyJson == "{}"
NoError == ""

KeyError(k) == "'" \o k \o "'"

Min(S) == CHOOSE x \in S : \A y \in S : x <= y

Max(S) == CHOOSE x \in S : \A y \in S : x >= y

RECURSIVE SortIds(_)
SortIds(S) == IF S = {} THEN <<>> ELSE <<Min(S)>> \o SortIds(S \ {Min(S)})

RECURSIVE Flatten(_)
Flatten(ss) == IF Len(ss) = 0 THEN <<>> ELSE Head(ss) \o Flatten(Tail(ss))

\* ------------------------------------------------------------ the inputs
\* Users of the authentication backend; only TrainerUser has a Trainer row.
TrainerUser == "trainer_user"
PlainUser == "plain_user"
Users == {TrainerUser, PlainUser}

Titles == {"A", "B"}

ItemL1 ==
  [type |-> "lesson", title |-> "L1",
   resources |-> <<[type |-> "video", url |-> "http://x/v.mp4"]>>]

ItemQ1 ==
  [type |-> "assessment", assessmentType |-> "quiz", title |-> "Q1",
   questions |-> <<[question |-> "2+2?", options |-> <<"3", "4">>,
                    answer |-> "4", order |-> 1]>>]

ItemL2 ==
  [type |-> "lesson", title |-> "L2", content |-> [slides |-> "deck"],
   resources |-> <<[title |-> "r", url |-> "u"],
                   [type |-> "file", content |-> "j"]>>]

ItemL2b == [type |-> "lesson", title |-> "L2", content |-> [notes |-> "n"]]

ItemQ2 ==
  [type |-> "assessment", assessmentType |-> "exam",
   questions |-> <<[question |-> "q1", answer |-> "a", order |-> 2],
                   [question |-> "q2"]>>]

ItemOther == [type |-> "video", title |-> "O"]

\* The concrete scenario of the specification.
DocIntro(t) ==
  [title |-> t, description |-> "d",
   chapters |-> <<[title |-> "Ch1", content |-> <<ItemL1, ItemQ1>>]>>]

\* Two chapters; the same lesson title in both; lessons and assessments
\* interleaved; an item of another type; a chapter with objectives.
DocTwo(t) ==
  [title |-> t, description |-> "d",
   chapters |-> <<[title |-> "Ch1", content |-> <<ItemQ2, ItemL2>>],
                  [title |-> "Ch2", description |-> "second",
                   objectives |-> <<"o1">>,
                   content |-> <<ItemL2b, ItemOther, ItemQ1>>]>>]

DocNoChapters(t) == [title |-> t, description |-> "d"]

DocNoDescription(t) ==
  [title |-> t, chapters |-> <<[title |-> "Ch1", content |-> <<ItemL1>>]>>]

DocNoTitle == [description |-> "d"]

\* The second chapter has no title: KeyError at line 26.
DocChapterNoTitle(t) ==
  [title |-> t, description |-> "d",
   chapters |-> <<[title |-> "Ch1"], [content |-> <<ItemL1>>]>>]

\* A content item has no type: KeyError at line 40.
DocItemNoType(t) ==
  [title |-> t, description |-> "d",
   chapters |-> <<[title |-> "Ch1", content |-> <<ItemL1, [title |-> "z"]>>]>>]

\* An assessment has no assessmentType: KeyError at line 53.
DocNoAssessmentType(t) ==
  [title |-> t, description |-> "d",
   chapters |-> <<[title |-> "Ch1",
                   content |-> <<ItemL1, [type |-> "assessment", title |-> "Q"]>>]>>]

\* A question with a negative order: Question.order is a
\* PositiveIntegerField (models.py:251), the insert of line 110 fails.
DocBadOrder(t) ==
  [title |-> t, description |-> "d",
   chapters |-> <<[title |-> "Ch1",
                   content |-> <<ItemL1,
                     [type |-> "assessment", assessmentType |-> "quiz",
                      title |-> "Q",
                      questions |-> <<[question |-> "q", order |-> 0 - 1]>>]>>]>>]

\* Two lessons of one chapter with the same title, two assessments of one
\* chapter without a title.
DocDupTitles(t) ==
  [title |-> t, description |-> "d",
   chapters |-> <<[title |-> "Ch1",
                   content |-> <<ItemL1,
                     [type |-> "lesson", title |-> "L1",
                      content |-> [slides |-> "deck"]],
                     ItemQ2,
                     [type |-> "assessment", assessmentType |-> "quiz",
                      questions |-> <<[question |-> "q3", answer |-> "c"]>>]>>]>>]

EmptyDoc == [k \in {} |-> None]

Docs ==
  {DocIntro(t) : t \in Titles} \cup {DocTwo(t) : t \in Titles}
    \cup {DocNoChapters("A"), DocNoDescription("A"), DocNoTitle,
          DocChapterNoTitle("A"), DocItemNoType("A"), DocNoAssessmentType("A"),
          DocBadOrder("A"), DocDupTitles("A")}

\* request.data of the upsert action.
Bodies == {[curriculum |-> d] : d \in Docs \cup {EmptyDoc}} \cup {[other |-> "x"]}

\* The bodies of the requests that run concurrently.
ConcurrentBodies ==
  {[curriculum |-> d] :
     d \in {DocIntro("A"), DocIntro("B"), DocTwo("A"), DocItemNoType("B")}}

\* ------------------------------------------------ upsert_curriculum, pure
\* chapters_data = data.get("chapters", [])
chapters_data(data) == Get(data, "chapters", <<>>)

\* The (idx, content_data) pairs in the order in which the two nested loops
\* "for idx, chapter_data in enumerate(chapters_data): for content_data in
\* chapter_data.get("content", [])" visit them.
ContentItems(data) ==
  LET chs == chapters_data(data)
      of(i) == LET c == Get(chs[i], "content", <<>>)
               IN  [j \in 1..Len(c) |-> [idx |-> i, item |-> c[j]]]
  IN  Flatten([i \in 1..Len(chs) |-> of(i)])

\* Mutant of IsLesson: whatever is no assessment is a lesson.
IsLessonByDefault(e) == Has(e.item, "type") /\ e.item.type # "assessment"

IsLesson(e) == Has(e.item, "type") /\ e.item.type = "lesson"

IsAssessment(e) == Has(e.item, "type") /\ e.item.type = "assessment"

\* The message of the first exception a loop raises: errs[i] is the message
\* of the exception raised at the i-th iteration, NoError when there is none.
FirstError(errs) ==
  LET bad == {i \in 1..Len(errs) : errs[i] # NoError}
  IN  IF bad = {} THEN NoError ELSE errs[Min(bad)]

\* Lines 23-31: Chapter(title=chapter_data["title"], ...).
ChapterObjsError(data) ==
  LET chs == chapters_data(data)
  IN  FirstError([i \in 1..Len(chs) |->
        IF Has(chs[i], "title") THEN NoError ELSE KeyError("title")])

chapter_objs(data, curriculum) ==
  LET chs == chapters_data(data)
  IN  [i \in 1..Len(chs) |->
        [id |-> 0, call |-> 0, is_deleted |-> FALSE,
         title |-> chs[i].title,
         curriculum |-> curriculum,
         description |-> Get(chs[i], "description", ""),
         objectives |-> Get(chs[i], "objectives", <<>>)]]

\* Lines 38-58: the exception of one iteration of the loop that builds
\* lesson_objs and assessment_objs (keyword arguments are evaluated in the
\* order in which they are written).
ContentObjError(e, chapter_map) ==
  IF ~Has(e.item, "type") THEN KeyError("type")
  ELSE IF e.item.type = "lesson"
       THEN IF ~Has(e.item, "title") THEN KeyError("title")
            ELSE IF e.idx \notin DOMAIN chapter_map THEN ToString(e.idx - 1)
            ELSE NoError
  ELSE IF e.item.type = "assessment"
       THEN IF e.idx \notin DOMAIN chapter_map THEN ToString(e.idx - 1)
            ELSE IF ~Has(e.item, "assessmentType") THEN KeyError("assessmentType")
            ELSE NoError
  ELSE NoError

ContentObjsError(data, chapter_map) ==
  LET es == ContentItems(data)
  IN  FirstError([k \in 1..Len(es) |-> ContentObjError(es[k], chapter_map)])

lesson_objs(data, chapter_map) ==
  LET es == SelectSeq(ContentItems(data), IsLesson)
  IN  [k \in 1..Len(es) |->
        [id |-> 0, call |-> 0, is_deleted |-> FALSE,
         title |-> es[k].item.title,
         chapter |-> chapter_map[es[k].idx]]]

lesson_parent(data) ==
  LET es == SelectSeq(ContentItems(data), IsLesson)
  IN  [k \in 1..Len(es) |-> <<es[k].idx, es[k].item.title>>]

assessment_objs(data, chapter_map) ==
  LET es == SelectSeq(ContentItems(data), IsAssessment)
  IN  [k \in 1..Len(es) |->
        [id |-> 0, call |-> 0, is_deleted |-> FALSE,
         chapter |-> chapter_map[es[k].idx],
         type |-> es[k].item.assessmentType,
         title |-> Get(es[k].item, "title", ""),
         description |-> Get(es[k].item, "description", "")]]

assessment_parent(data) ==
  LET es == SelectSeq(ContentItems(data), IsAssessment)
  IN  [k \in 1..Len(es) |-> <<es[k].idx, Get(es[k].item, "title", "")>>]

\* Mutant of ZipMap: the first pair with a key wins.
ZipMapFirst(keys, rows) ==
  LET n == Min({Len(keys), Len(rows)})
  IN  [key \in {keys[i] : i \in 1..n} |->
        rows[Min({i \in 1..n : keys[i] = key})]]

\* {key: row for key, row in zip(keys, rows)}: zip stops at the shorter
\* list, a later pair with the same key replaces the earlier one.
ZipMap(keys, rows) ==
  LET n == Min({Len(keys), Len(rows)})
  IN  [key \in {keys[i] : i \in 1..n} |->
        rows[Max({i \in 1..n : keys[i] = key})]]

EmptyMap == [key \in {} |-> 0]

LessonKey(e) == <<e.idx, e.item.title>>

AssessmentKey(e) == <<e.idx, Get(e.item, "title", "")>>

\* Lines 69-108: the exception of one iteration (a key the map lacks).
ChildObjError(e, lesson_map, assessment_map) ==
  IF IsLesson(e) /\ LessonKey(e) \notin DOMAIN lesson_map
    THEN "(" \o ToString(e.idx - 1) \o ", '" \o e.item.title \o "')"
  ELSE IF IsAssessment(e) /\ AssessmentKey(e) \notin DOMAIN assessment_map
    THEN "(" \o ToString(e.idx - 1) \o ", '" \o Get(e.item, "title", "") \o "')"
  ELSE NoError

ChildObjsError(data, lesson_map, assessment_map) ==
  LET es == ContentItems(data)
  IN  FirstError([k \in 1..Len(es) |->
        ChildObjError(es[k], lesson_map, assessment_map)])

\* Mutant of SlidesMaterial: the test looks for the key "slide".
SlidesMaterialWrongKey(item, lesson) ==
  IF Has(item, "content") /\ Has(item.content, "slide")
  THEN <<[id |-> 0, call |-> 0, is_deleted |-> FALSE,
          lesson |-> lesson, type |-> "slides", title |-> item.title,
          url |-> None, file_size |-> NoneInt, file_type |-> None,
          json_data |-> item.content.slide]>>
  ELSE <<>>

\* Lines 75-96: the Materials of one lesson item.
SlidesMaterial(item, lesson) ==
  IF Has(item, "content") /\ Has(item.content, "slides")
  THEN <<[id |-> 0, call |-> 0, is_deleted |-> FALSE,
          lesson |-> lesson, type |-> "slides", title |-> item.title,
          url |-> None, file_size |-> NoneInt, file_type |-> None,
          json_data |-> item.content.slides]>>
  ELSE <<>>

ResourceMaterials(item, lesson) ==
  LET rs == Get(item, "resources", <<>>)
  IN  [i \in 1..Len(rs) |->
        [id |-> 0, call |-> 0, is_deleted |-> FALSE,
         lesson |-> lesson,
         type |-> Get(rs[i], "type", "video"),
         title |-> Get(rs[i], "title", ""),
         url |-> Get(rs[i], "url", ""),
         file_size |-> Get(rs[i], "file_size", 0),
         file_type |-> Get(rs[i], "file_type", ""),
         json_data |-> Get(rs[i], "content", EmptyJson)]]

material_objs(data, lesson_map) ==
  LET es == SelectSeq(ContentItems(data), IsLesson)
  IN  Flatten([k \in 1..Len(es) |->
        SlidesMaterial(es[k].item, lesson_map[LessonKey(es[k])])
          \o ResourceMaterials(es[k].item, lesson_map[LessonKey(es[k])])])

\* Mutant of ItemQuestions: a question without order gets its position.
ItemQuestionsByPosition(item, assessment) ==
  LET qs == Get(item, "questions", <<>>)
  IN  [i \in 1..Len(qs) |->
        [id |-> 0, call |-> 0, is_deleted |-> FALSE,
         assessment |-> assessment,
         text |-> Get(qs[i], "question", ""),
         options |-> Get(qs[i], "options", <<>>),
         correct_answer |-> Get(qs[i], "answer", ""),
         order |-> Get(qs[i], "order", i)]]

\* Lines 97-108: the Questions of one assessment item.
ItemQuestions(item, assessment) ==
  LET qs == Get(item, "questions", <<>>)
  IN  [i \in 1..Len(qs) |->
        [id |-> 0, call |-> 0, is_deleted |-> FALSE,
         assessment |-> assessment,
         text |-> Get(qs[i], "question", ""),
         options |-> Get(qs[i], "options", <<>>),
         correct_answer |-> Get(qs[i], "answer", ""),
         order |-> Get(qs[i], "order", 0)]]

question_objs(data, assessment_map) ==
  LET es == SelectSeq(ContentItems(data), IsAssessment)
  IN  Flatten([k \in 1..Len(es) |->
        ItemQuestions(es[k].item, assessment_map[AssessmentKey(es[k])])])

\* ------------------------------------------------------------ the store
Tables ==
  {"Curriculum", "Chapter", "Lesson", "Assessment", "Materials", "Question",
   "Enrollment", "TraineeAnswer", "ChatMessage"}

\* Mutant of HasTrainer: the lookup does not filter by the user.
HasTrainerAny(user) == TRUE

\* Trainer.objects.get(user=request.user) finds a row.
HasTrainer(user) == user = TrainerUser

\* The rows a statement of the call sees: the committed ones and its own.
Visible(table, call) == {r \in db[table] : r.call \in committed \/ r.call = call}

RowsOf(call) == [t \in Tables |-> {r \in db[t] : r.call = call}]

NoRows == [t \in Tables |-> {}]

Row(table, id) == CHOOSE r \in db[table] : r.id = id

\* Model.objects.bulk_create(objs) / Model.objects.create(...): the rows
\* take the next values of the table's sequence, in the order of the list.
Inserted(table, objs, call) ==
  {[objs[i] EXCEPT !.id = nextId[table] + i - 1, !.call = call] : i \in 1..Len(objs)}

\* Mutant of Insert: the new rows replace the rows of the table.
InsertReplacing(table, objs, call) ==
  /\ db' = [db EXCEPT ![table] = Inserted(table, objs, call)]
  /\ nextId' = [nextId EXCEPT ![table] = @ + Len(objs)]

Insert(table, objs, call) ==
  /\ db' = [db EXCEPT ![table] = @ \cup Inserted(table, objs, call)]
  /\ nextId' = [nextId EXCEPT ![table] = @ + Len(objs)]

\* Mutant of TitleExists: the filter tests is_deleted=True.
TitleExistsDeleted(title, call) ==
  \E c \in Visible("Curriculum", call) : c.title = title /\ c.is_deleted

\* Mutant of TitleExists: the filter on is_deleted is missing.
TitleExistsAnyFlag(title, call) ==
  \E c \in Visible("Curriculum", call) : c.title = title

\* Line 10: Curriculum.objects.filter(title=..., is_deleted=False).exists()
TitleExists(title, call) ==
  \E c \in Visible("Curriculum", call) : c.title = title /\ ~c.is_deleted

\* Mutant of FetchChapters: order_by('-id').
FetchChaptersDescending(curriculum, call) ==
  LET ids == SortIds({c.id : c \in {r \in Visible("Chapter", call) : r.curriculum = curriculum}})
  IN  [i \in 1..Len(ids) |-> ids[Len(ids) + 1 - i]]

\* Mutant of FetchChapters: the filter on the curriculum is missing.
FetchChaptersAll(curriculum, call) ==
  SortIds({c.id : c \in Visible("Chapter", call)})

\* Line 33: Chapter.objects.filter(curriculum=curriculum).order_by('id')
FetchChapters(curriculum, call) ==
  SortIds({c.id : c \in {r \in Visible("Chapter", call) : r.curriculum = curriculum}})

\* Line 62: Lesson.objects.filter(chapter__curriculum=curriculum).order_by('id')
FetchLessons(curriculum, call) ==
  SortIds({l.id : l \in {r \in Visible("Lesson", call) :
    \E c \in Visible("Chapter", call) : c.id = r.chapter /\ c.curriculum = curriculum}})

\* Line 63: Assessment.objects.filter(chapter__curriculum=curriculum).order_by('id')
FetchAssessments(curriculum, call) ==
  SortIds({a.id : a \in {r \in Visible("Assessment", call) :
    \E c \in Visible("Chapter", call) : c.id = r.chapter /\ c.curriculum = curriculum}})

\* A row the schema refuses: Question.order is a PositiveIntegerField.
QuestionsError(objs) ==
  IF \E i \in 1..Len(objs) : objs[i].order < 0
  THEN "violates check constraint \"zad_learn_question_order_check\""
  ELSE NoError

\* Mutant of CurriculumError: a unique constraint on the title of the
\* non-deleted rows.
CurriculumErrorUnique(title, call) ==
  IF \E c \in db["Curriculum"] : c.title = title /\ ~c.is_deleted
  THEN "duplicate key value violates unique constraint"
  ELSE NoError

\* The schema of Curriculum (models.py 40-61) has no constraint on title:
\* the insert of a second row with the same title is accepted.
CurriculumError(title, call) == NoError

\* ---------------------------------------------------------- the responses
NoResp ==
  [kind |-> "none", status |-> 0, detail |-> "", id |-> 0, title |-> "",
   description |-> "", chapters |-> <<>>]

\* Response({"detail": detail}, status=status)
Detail(status, detail) == [NoResp EXCEPT !.kind = "json", !.status = status, !.detail = detail]

\* An exception that leaves the view: Django answers 500 without the
\* {"detail": ...} body.
Unhandled == [NoResp EXCEPT !.kind = "unhandled", !.status = 500]

Conflict == Detail(400, "A curriculum with this title already exists.")

TrainerNotFound == Detail(404, "Trainer not found.")

\* Lines 113-135.
response_chapters(data, chapter_map, lesson_map, assessment_map) ==
  LET chs == chapters_data(data)
      entries(i, isType(_), keyOf(_), map, table) ==
        LET c  == Get(chs[i], "content", <<>>)
            es == SelectSeq([j \in 1..Len(c) |-> [idx |-> i, item |-> c[j]]], isType)
        IN  [k \in 1..Len(es) |->
              [id |-> map[keyOf(es[k])], title |-> Row(table, map[keyOf(es[k])]).title]]
  IN  [i \in 1..Len(chapter_map) |->
        [id |-> chapter_map[i],
         title |-> Row("Chapter", chapter_map[i]).title,
         lessons |-> entries(i, IsLesson, LessonKey, lesson_map, "Lesson"),
         assessments |-> entries(i, IsAssessment, AssessmentKey, assessment_map, "Assessment")]]

\* Lines 137-145.
Created(data, l) ==
  [kind |-> "json", status |-> 201, detail |-> "Curriculum upserted successfully.",
   id |-> l.curriculum,
   title |-> Row("Curriculum", l.curriculum).title,
   description |-> Row("Curriculum", l.curriculum).description,
   chapters |-> response_chapters(data, l.chapter_map, l.lesson_map, l.assessment_map)]

\* ------------------------------------------------- the chat stream, pure
\* The text of the AI service is a sequence of tokens: "{" and "}", "d"
\* for the member "data": <text>, "e" for a member that gives no data
\* (another key, or "data": ""), "x" for text that is no JSON, " " for
\* white space, and "half" for the bytes of one part of a multi-byte
\* character that a chunk boundary has cut.  Two "half" side by side in a
\* chunk are the bytes of one character, the letter "u" once decoded; "d"
\* and "u" are the letters of the text of "data", and a blank between
\* letters is part of that text.
Tokens == {"{", "}", "d", "e", "x", " ", "half", "u"}

RECURSIVE DecodeFails(_)
\* chunk.decode("utf-8") (views.py 1063) raises UnicodeDecodeError: the
\* chunk holds one part of a character without the other.
DecodeFails(chunk) ==
  IF Len(chunk) = 0 THEN FALSE
  ELSE IF Head(chunk) = "half"
  THEN \/ Len(chunk) < 2
       \/ chunk[2] # "half"
       \/ DecodeFails(SubSeq(chunk, 3, Len(chunk)))
  ELSE DecodeFails(Tail(chunk))

RECURSIVE Decoded(_)
\* chunk.decode("utf-8") (views.py 1063) of a chunk it accepts.
Decoded(chunk) ==
  IF Len(chunk) = 0 THEN <<>>
  ELSE IF Head(chunk) = "half"
  THEN <<"u">> \o Decoded(SubSeq(chunk, 3, Len(chunk)))
  ELSE <<Head(chunk)>> \o Decoded(Tail(chunk))

\* str.find: the first position of token t at or after position from, 0
\* when there is none (positions are 1-based here, -1 is 0).
Find(buffer, t, from) ==
  LET at == {i \in from..Len(buffer) : buffer[i] = t}
  IN  IF at = {} THEN 0 ELSE Min(at)

RECURSIVE Strip(_)
\* str.strip() (views.py 1085).
Strip(buffer) ==
  IF Len(buffer) = 0 THEN buffer
  ELSE IF Head(buffer) = " " THEN Strip(Tail(buffer))
  ELSE IF buffer[Len(buffer)] = " " THEN Strip(SubSeq(buffer, 1, Len(buffer) - 1))
  ELSE buffer

\* json.loads(json_str) (views.py 1079) succeeds: json_str is "{", members
\* and white space, "}".  It fails on text that is no JSON and on the
\* opening brace of a nested object, which the cut at the first "}" leaves
\* without its end.
ParseOk(json_str) ==
  /\ Len(json_str) >= 2
  /\ json_str[1] = "{"
  /\ json_str[Len(json_str)] = "}"
  /\ \A i \in 2..(Len(json_str) - 1) : json_str[i] \in {"d", "u", "e", " "}

\* parsed_data.get("data") (views.py 1080): the text of the member, the
\* empty text when the object has no data.
Data(json_str) ==
  LET members == SubSeq(json_str, 2, Len(json_str) - 1)
  IN  IF \E i \in 1..Len(members) : members[i] = "e"
      THEN <<>>
      ELSE Strip(members)

\* inner_data is truthy (views.py 1082).
HasData(json_str) == Data(json_str) # <<>>

\* The state of the call of stream_response of one worker: the statement it is at, what
\* requests.post gave (status, the chunks of the body, the chunks not yet
\* read), complete_buffer, the events yielded and the texts of the data
\* events among them, the exception of requests it caught, and the number
\* of threads it started.
NewStream ==
  [pc |-> "post", status |-> 0, body |-> <<>>, chunks |-> <<>>, buffer |-> <<>>,
   events |-> <<>>, payloads |-> <<>>, error |-> "none", started |-> 0]

\* -------------------------------------------------------------- the state
\* db[t]: the rows of table t, each with the call that wrote it;
\* nextId[t]: the next value of the id sequence of t; committed: the calls
\* whose transaction is committed; calls: the number of requests received;
\* pc[p], req[p], loc[p]: the statement, the request and the local
\* variables of the handler worker p runs; log[c]: the request of call c
\* and the response it got, and for generate what the external service
\* answered.
NoUpstream == [kind |-> "none"]

NoReq == [call |-> 0, handler |-> "none", user |-> None, data |-> EmptyDoc]

NoLoc ==
  [curriculum |-> 0, chapter_map |-> <<>>, lesson_map |-> EmptyMap,
   assessment_map |-> EmptyMap]

Init ==
  /\ db = NoRows
  /\ nextId = [t \in Tables |-> 1]
  /\ committed = {}
  /\ calls = 0
  /\ pc = [p \in Workers |-> "idle"]
  /\ req = [p \in Workers |-> NoReq]
  /\ loc = [p \in Workers |-> NoLoc]
  /\ log = <<>>
  /\ stream = [p \in Workers |-> NewStream]

\* Mutant of After: the chapters are inserted before the curriculum.
AfterChaptersFirst(label) ==
  CASE label = "check"            -> "bulkChapters"
    [] label = "bulkChapters"     -> "createCurriculum"
    [] label = "createCurriculum" -> "fetchChapters"
    [] label = "fetchChapters"    -> "bulkLessons"
    [] label = "bulkLessons"      -> "bulkAssessments"
    [] label = "bulkAssessments"  -> "fetchLessons"
    [] label = "fetchLessons"     -> "fetchAssessments"
    [] label = "fetchAssessments" -> "bulkMaterials"
    [] label = "bulkMaterials"    -> "bulkQuestions"
    [] label = "bulkQuestions"    -> "respond"

\* The order of the statements of upsert_curriculum (lines 10-145).
After(label) ==
  CASE label = "check"            -> "createCurriculum"
    [] label = "createCurriculum" -> "bulkChapters"
    [] label = "bulkChapters"     -> "fetchChapters"
    [] label = "fetchChapters"    -> "bulkLessons"
    [] label = "bulkLessons"      -> "bulkAssessments"
    [] label = "bulkAssessments"  -> "fetchLessons"
    [] label = "fetchLessons"     -> "fetchAssessments"
    [] label = "fetchAssessments" -> "bulkMaterials"
    [] label = "bulkMaterials"    -> "bulkQuestions"
    [] label = "bulkQuestions"    -> "respond"

Goto(p, label) == pc' = [pc EXCEPT ![p] = After(label)]

\* A request arrives at worker p and is answered at once.
Answer(p, handler, user, upstream, data, response) ==
  /\ calls' = calls + 1
  /\ log' = Append(log, [handler |-> handler, user |-> user, upstream |-> upstream,
                         data |-> data, resp |-> response])
  /\ UNCHANGED <<pc, req, loc>>

\* A request arrives at worker p, which enters upsert_curriculum.
Enter(p, handler, user, upstream, data) ==
  /\ calls' = calls + 1
  /\ log' = Append(log, [handler |-> handler, user |-> user, upstream |-> upstream,
                         data |-> data, resp |-> NoResp])
  /\ req' = [req EXCEPT ![p] = [call |-> calls + 1, handler |-> handler,
                                user |-> user, data |-> data]]
  /\ pc' = [pc EXCEPT ![p] = "check"]
  /\ UNCHANGED loc

\* The handler returns: transaction.atomic commits when the view returns
\* normally and rolls back when an exception leaves it or when a statement
\* of the block failed in the database (the connection is then marked
\* needs_rollback).
Return(p, response, rollback) ==
  /\ pc' = [pc EXCEPT ![p] = "idle"]
  /\ log' = [log EXCEPT ![req[p].call].resp = response]
  /\ req' = [req EXCEPT ![p] = NoReq]
  /\ loc' = [loc EXCEPT ![p] = NoLoc]
  /\ db' = IF rollback
           THEN [t \in Tables |-> {r \in db[t] : r.call # req[p].call}]
           ELSE db
  /\ committed' = IF rollback THEN committed ELSE committed \cup {req[p].call}
  /\ UNCHANGED <<nextId, calls>>

\* Lines 148-150: except Exception as e: Response({"detail": str(e)}, 500).
Raise(p, message) == Return(p, Detail(500, message), FALSE)

\* The same lines for an exception of the database: the failed statement
\* ran in an inner atomic block (create and bulk_create open one), which
\* marks the transaction for rollback.
RaiseDb(p, message) == Return(p, Detail(500, message), TRUE)

\* The statement is done, the handler goes on.
Continue(p, label) ==
  /\ Goto(p, label)
  /\ UNCHANGED <<committed, calls, req, log>>

\* ------------------------------------------------------------ the views
\* CurriculumViewSet.upsert (views.py 320-326), with request.data in bodies.
UpsertOf(p, bodies) ==
  /\ pc[p] = "idle"
  /\ calls < MaxCalls
  /\ \E user \in Users, body \in bodies :
       LET data == Get(body, "curriculum", EmptyDoc)
       IN  IF DOMAIN data = {}
           THEN Answer(p, "upsert", user, NoUpstream, data,
                  Detail(400, "Curriculum data is required."))
           ELSE Enter(p, "upsert", user, NoUpstream, data)
  /\ UNCHANGED <<db, nextId, committed>>

Upsert(p) == UpsertOf(p, Bodies)

UpsertConcurrently(p) == UpsertOf(p, ConcurrentBodies)

\* What the request to the external service gives (views.py 340-348): an
\* exception of requests, or a response with a status and a body that is
\* no JSON ("text"), a JSON array or a JSON object.
Upstream ==
  {[failure |-> "ConnectionError"], [failure |-> "Timeout"],
   [status |-> 500, kind |-> "object", json |-> [curriculum |-> DocIntro("A")]],
   [status |-> 201, kind |-> "object", json |-> [curriculum |-> DocIntro("A")]],
   [status |-> 200, kind |-> "text", json |-> EmptyDoc],
   [status |-> 200, kind |-> "array", json |-> EmptyDoc],
   [status |-> 200, kind |-> "object", json |-> [other |-> "x"]],
   [status |-> 200, kind |-> "object", json |-> [curriculum |-> EmptyDoc]],
   [status |-> 200, kind |-> "object", json |-> [curriculum |-> DocNoTitle]]}
    \cup {[status |-> 200, kind |-> "object", json |-> [curriculum |-> DocIntro(t)]] :
            t \in Titles}

\* Response.raise_for_status() (views.py 346) raises HTTPError, a
\* RequestException, for the statuses 400 to 599 and for no other.
RaisesForStatus(status) == status >= 400 /\ status < 600

\* CurriculumViewSet.generate (views.py 330-366).
Generate(p) ==
  /\ pc[p] = "idle"
  /\ calls < MaxCalls
  /\ \E user \in Users, ext \in Upstream :
       LET data == IF Has(ext, "failure") \/ RaisesForStatus(ext.status)
                      \/ ext.kind # "object"
                   THEN EmptyDoc
                   ELSE Get(ext.json, "curriculum", EmptyDoc)
       IN  IF Has(ext, "failure")
           THEN Answer(p, "generate", user, ext, data,
                  Detail(502, "Network error: " \o ext.failure))
           ELSE IF RaisesForStatus(ext.status)
           THEN Answer(p, "generate", user, ext, data,
                  Detail(502, "Network error: " \o ToString(ext.status) \o " Error"))
           ELSE IF ext.kind = "text"
           THEN Answer(p, "generate", user, ext, data,
                  Detail(502, "Invalid JSON from external service."))
           ELSE IF ext.kind = "array"
           THEN Answer(p, "generate", user, ext, data,
                  Detail(500, "'list' object has no attribute 'get'"))
           ELSE IF DOMAIN data = {}
           THEN Answer(p, "generate", user, ext, data,
                  Detail(400, "No curriculum returned from external service."))
           ELSE Enter(p, "generate", user, ext, data)
  /\ UNCHANGED <<db, nextId, committed>>

\* CurriculumViewSet.perform_create (views.py 310-318) behind the create
\* endpoint of the ModelViewSet: CurriculumSerializer validates no
\* uniqueness of the title, and the row is committed at once.
Create(p) ==
  /\ pc[p] = "idle"
  /\ calls < MaxCalls
  /\ \E user \in Users, title \in Titles :
       LET data == [title |-> title, description |-> "d"]
       IN  IF HasTrainer(user)
           THEN /\ Insert("Curriculum",
                     <<[id |-> 0, call |-> 0, is_deleted |-> FALSE, title |-> title,
                        description |-> "d", created_by |-> user]>>, calls + 1)
                /\ committed' = committed \cup {calls + 1}
                /\ Answer(p, "create", user, NoUpstream, data,
                     [NoResp EXCEPT !.kind = "json", !.status = 201,
                                    !.id = nextId["Curriculum"], !.title = title,
                                    !.description = "d"])
           ELSE /\ Answer(p, "create", user, NoUpstream, data,
                     Detail(400, "You must be a trainer to create a curriculum."))
                /\ UNCHANGED <<db, nextId, committed>>

\* ------------------------------------------- upsert_curriculum, the steps
\* Lines 10-11.  A document without a title raises KeyError outside the
\* try block: generate catches it (views.py 364-366), upsert does not.
Check(p) ==
  /\ pc[p] = "check"
  /\ LET data == req[p].data
     IN  IF ~Has(data, "title")
         THEN IF req[p].handler = "generate"
              THEN Return(p, Detail(500, KeyError("title")), FALSE)
              ELSE Return(p, Unhandled, TRUE)
         ELSE IF TitleExists(data.title, req[p].call)
         THEN Return(p, Conflict, FALSE)
         ELSE /\ Continue(p, "check")
              /\ UNCHANGED <<db, nextId, loc>>

\* Lines 14-19.
CreateCurriculum(p) ==
  /\ pc[p] = "createCurriculum"
  /\ LET data == req[p].data
     IN  IF ~HasTrainer(req[p].user)
         THEN Return(p, TrainerNotFound, FALSE)
         ELSE IF ~Has(data, "description")
         THEN Raise(p, KeyError("description"))
         ELSE IF CurriculumError(data.title, req[p].call) # NoError
         THEN RaiseDb(p, CurriculumError(data.title, req[p].call))
         ELSE /\ Insert("Curriculum",
                   <<[id |-> 0, call |-> 0, is_deleted |-> FALSE,
                      title |-> data.title, description |-> data.description,
                      created_by |-> req[p].user]>>, req[p].call)
              /\ loc' = [loc EXCEPT ![p].curriculum = nextId["Curriculum"]]
              /\ Continue(p, "createCurriculum")

\* Lines 21-32.
BulkChapters(p) ==
  /\ pc[p] = "bulkChapters"
  /\ LET data == req[p].data
     IN  IF ChapterObjsError(data) # NoError
         THEN Raise(p, ChapterObjsError(data))
         ELSE /\ Insert("Chapter", chapter_objs(data, loc[p].curriculum), req[p].call)
              /\ Continue(p, "bulkChapters")
              /\ UNCHANGED loc

\* Lines 33-34.
RefetchChapters(p) ==
  /\ pc[p] = "fetchChapters"
  /\ loc' = [loc EXCEPT ![p].chapter_map = FetchChapters(loc[p].curriculum, req[p].call)]
  /\ Continue(p, "fetchChapters")
  /\ UNCHANGED <<db, nextId>>

\* Lines 36-60.
BulkLessons(p) ==
  /\ pc[p] = "bulkLessons"
  /\ LET data == req[p].data
     IN  IF ContentObjsError(data, loc[p].chapter_map) # NoError
         THEN Raise(p, ContentObjsError(data, loc[p].chapter_map))
         ELSE /\ Insert("Lesson", lesson_objs(data, loc[p].chapter_map), req[p].call)
              /\ Continue(p, "bulkLessons")
              /\ UNCHANGED loc

\* Line 61.
BulkAssessments(p) ==
  /\ pc[p] = "bulkAssessments"
  /\ Insert("Assessment", assessment_objs(req[p].data, loc[p].chapter_map), req[p].call)
  /\ Continue(p, "bulkAssessments")
  /\ UNCHANGED loc

\* Lines 62 and 65.
RefetchLessons(p) ==
  /\ pc[p] = "fetchLessons"
  /\ loc' = [loc EXCEPT ![p].lesson_map =
       ZipMap(lesson_parent(req[p].data), FetchLessons(loc[p].curriculum, req[p].call))]
  /\ Continue(p, "fetchLessons")
  /\ UNCHANGED <<db, nextId>>

\* Lines 63 and 66.
RefetchAssessments(p) ==
  /\ pc[p] = "fetchAssessments"
  /\ loc' = [loc EXCEPT ![p].assessment_map =
       ZipMap(assessment_parent(req[p].data),
              FetchAssessments(loc[p].curriculum, req[p].call))]
  /\ Continue(p, "fetchAssessments")
  /\ UNCHANGED <<db, nextId>>

\* Lines 68-109.
BulkMaterials(p) ==
  /\ pc[p] = "bulkMaterials"
  /\ LET data == req[p].data
         err  == ChildObjsError(data, loc[p].lesson_map, loc[p].assessment_map)
     IN  IF err # NoError
         THEN Raise(p, err)
         ELSE /\ Insert("Materials", material_objs(data, loc[p].lesson_map), req[p].call)
              /\ Continue(p, "bulkMaterials")
              /\ UNCHANGED loc

\* Line 110.
BulkQuestions(p) ==
  /\ pc[p] = "bulkQuestions"
  /\ LET objs == question_objs(req[p].data, loc[p].assessment_map)
     IN  IF QuestionsError(objs) # NoError
         THEN RaiseDb(p, QuestionsError(objs))
         ELSE /\ Insert("Question", objs, req[p].call)
              /\ Continue(p, "bulkQuestions")
              /\ UNCHANGED loc

\* Lines 112-145, and the commit when the view returns.
Respond(p) ==
  /\ pc[p] = "respond"
  /\ Return(p, Created(req[p].data, loc[p]), FALSE)

\* A committed curriculum is soft-deleted: its row stays, marked inactive.
SoftDelete ==
  /\ \E c \in db["Curriculum"] :
       /\ c.call \in committed
       /\ ~c.is_deleted
       /\ db' = [db EXCEPT !["Curriculum"] = (@ \ {c}) \cup {[c EXCEPT !.is_deleted = TRUE]}]
  /\ UNCHANGED <<nextId, committed, calls, pc, req, loc, log>>

\* The statements of upsert_curriculum, one per step.
Statement(p) ==
  \/ Check(p)
  \/ CreateCurriculum(p)
  \/ BulkChapters(p)
  \/ RefetchChapters(p)
  \/ BulkLessons(p)
  \/ BulkAssessments(p)
  \/ RefetchLessons(p)
  \/ RefetchAssessments(p)
  \/ BulkMaterials(p)
  \/ BulkQuestions(p)
  \/ Respond(p)

\* Concurrent upsert requests, their statements interleaved.
Next ==
  \/ \E p \in Workers : (UpsertConcurrently(p) \/ Statement(p)) /\ UNCHANGED stream
  \/ (SoftDelete /\ UNCHANGED stream)

Spec == Init /\ [][Next]_vars

\* One request at a time, of any of the three endpoints: a handler starts
\* and runs while no other runs, on the first worker.
Alone(p) == \A q \in Workers \ {p} : pc[q] = "idle"

Idle == \A q \in Workers : pc[q] = "idle"

SeqNext ==
  \/ \E p \in {Min(Workers)} :
       /\ Alone(p)
       /\ Upsert(p) \/ Generate(p) \/ Create(p) \/ Statement(p)
       /\ UNCHANGED stream
  \/ (Idle /\ SoftDelete /\ UNCHANGED stream)

SeqSpec == Init /\ [][SeqNext]_vars

\* ------------------------------------------------------------- the reads
\* A committed row of any table is soft-deleted: the row stays, its flag
\* is set.
SoftDeleteRow ==
  /\ \E t \in Tables : \E r \in db[t] :
       /\ r.call \in committed
       /\ ~r.is_deleted
       /\ db' = [db EXCEPT ![t] = (@ \ {r}) \cup {[r EXCEPT !.is_deleted = TRUE]}]
  /\ UNCHANGED <<nextId, committed, calls, pc, req, loc, log>>

\* The rows a request outside any transaction reads: the committed ones.
Stored(table) == {r \in db[table] : r.call \in committed}

\* The keys of the chapters a request may name: those in use and the next.
ChapterKeys == 1..nextId["Chapter"]

\* ChapterViewSet.get_resources (views.py 447-520).  The querysets have no
\* order_by: the members of each list are modelled, not their order.
ResourcesOf(pk) ==
  LET lessons     == {l \in Stored("Lesson") : l.chapter = pk /\ ~l.is_deleted}
      materials   == {m \in Stored("Materials") :
                        m.lesson \in {l.id : l \in lessons} /\ ~m.is_deleted}
      assessments == {a \in Stored("Assessment") : a.chapter = pk /\ ~a.is_deleted}
      questions   == {q \in Stored("Question") : q.assessment \in {a.id : a \in assessments}}
  IN  [kind |-> "json", status |-> 200, detail |-> "", id |-> pk,
       title |-> (CHOOSE c \in Stored("Chapter") : c.id = pk).title,
       description |-> (CHOOSE c \in Stored("Chapter") : c.id = pk).description,
       chapters |-> <<>>,
       lessons |-> {[id |-> l.id, title |-> l.title,
                     materials |-> {m.id : m \in {x \in materials : x.lesson = l.id}}] :
                    l \in lessons},
       assessments |-> {[id |-> a.id, title |-> a.title,
                         questions |-> {q.id : q \in {x \in questions :
                                                        x.assessment = a.id}}] :
                        a \in assessments}]

GetResources(p) ==
  /\ pc[p] = "idle"
  /\ calls < MaxCalls
  /\ \E user \in Users, pk \in ChapterKeys :
       Answer(p, "get_resources", user, NoUpstream, [pk |-> pk],
         IF \E c \in Stored("Chapter") : c.id = pk /\ ~c.is_deleted
         THEN ResourcesOf(pk)
         ELSE Detail(404, "Chapter not found."))
  /\ UNCHANGED <<db, nextId, committed>>

\* The list endpoint of QuestionViewSet (views.py 628-631):
\* queryset = Question.objects.all().
ListQuestions(p) ==
  /\ pc[p] = "idle"
  /\ calls < MaxCalls
  /\ \E user \in Users :
       Answer(p, "list_questions", user, NoUpstream, EmptyDoc,
         [kind |-> "json", status |-> 200, detail |-> "", id |-> 0, title |-> "",
          description |-> "", chapters |-> <<>>,
          questions |-> {q.id : q \in Stored("Question")}])
  /\ UNCHANGED <<db, nextId, committed>>

\* The bodies of the imports whose rows are read.
ReadBodies == {[curriculum |-> DocIntro("A")]}

UpsertToRead(p) == UpsertOf(p, ReadBodies)

\* Imports, soft deletes and reads, one request at a time.
ReadNext ==
  \/ \E p \in {Min(Workers)} :
       /\ Alone(p)
       /\ UpsertToRead(p) \/ Statement(p) \/ GetResources(p) \/ ListQuestions(p)
       /\ UNCHANGED stream
  \/ (Idle /\ SoftDeleteRow /\ UNCHANGED stream)

ReadSpec == Init /\ [][ReadNext]_vars

\* ------------------------------------------------------ the chat stream
\* The bodies of the AI service, as the chunks iter_content gives: two
\* events in one chunk, an object cut by the chunk boundary, an empty body,
\* text that is no JSON between braces, an empty chunk, a multi-byte
\* character cut by the chunk boundary, an object with a nested object
\* before an object with data, a text of two words in one chunk and cut
\* after the blank, and a text with a multi-byte character in one chunk and
\* cut inside the character.
StreamBodies ==
  {<< <<"{", "d", "}", " ", "{", "d", "}">> >>,
   << <<"{", "d">>, <<"}", "{", "e", "}">> >>,
   <<>>,
   << <<"x", "{", "x", "}">>, <<"{", "d", "}">> >>,
   << <<>>, <<"{", "d", "}", " ">> >>,
   << <<"{", "d", "}", "half">>, <<"half", "{", "d", "}">> >>,
   << <<"{", "e", "{", "}", "}", "{", "d", "}">> >>,
   << <<"{", "e", "}", "{", "d", " ", "d", "}">> >>,
   << <<"{", "e", "}", "{", "d", " ">>, <<"d", "}">> >>,
   << <<"{", "d", "half", "half", "}">> >>,
   << <<"{", "d", "half">>, <<"half", "}">> >>}

StreamStatuses == {200, 404, 500}

\* An exception of requests is caught (views.py 1101-1107): one error
\* event is yielded and the generator ends.
StreamError(p, e) ==
  stream' = [stream EXCEPT
    ![p].error = e,
    ![p].events = Append(@, IF e = "Timeout"
                            THEN "Error: Request timed out. Please try again later."
                            ELSE "Error: " \o e),
    ![p].pc = "done"]

\* views.py 1042-1055: requests.post(..., stream=True, timeout=70) and the
\* test of the status.
StreamPost(p) ==
  /\ stream[p].pc = "post"
  /\ \/ \E e \in {"Timeout", "ConnectionError"} : StreamError(p, e)
     \/ \E status \in StreamStatuses, body \in StreamBodies :
          IF status # 200
          THEN stream' = [stream EXCEPT ![p].status = status, ![p].pc = "done",
                            ![p].events = Append(@, "Error: " \o ToString(status))]
          ELSE stream' = [stream EXCEPT ![p].status = status, ![p].body = body,
                            ![p].chunks = body, ![p].pc = "iter"]
  /\ UNCHANGED store

\* views.py 1061-1069: the for statement takes the next chunk, which may
\* raise when the connection breaks, skips an empty chunk, decodes the
\* chunk and appends it to complete_buffer.  UnicodeDecodeError is caught
\* by no except clause of stream_response and leaves the generator.
StreamChunk(p) ==
  /\ stream[p].pc = "iter"
  /\ IF stream[p].chunks = <<>>
     THEN stream' = [stream EXCEPT ![p].pc = "start"]
     ELSE \/ StreamError(p, "ChunkedEncodingError")
          \/ LET chunk == Head(stream[p].chunks)
             IN  IF Len(chunk) = 0
                 THEN stream' = [stream EXCEPT ![p].chunks = Tail(@)]
                 ELSE IF DecodeFails(chunk)
                 THEN stream' = [stream EXCEPT ![p].chunks = Tail(@), ![p].pc = "crashed"]
                 ELSE stream' = [stream EXCEPT ![p].chunks = Tail(@), ![p].pc = "parse",
                                   ![p].buffer = @ \o Decoded(chunk)]
  /\ UNCHANGED store

\* start_index and end_index of views.py 1072-1073 (the loop goes on only
\* when both are found).
StartIndex(p) == Find(stream[p].buffer, "{", 1)

EndIndex(p) == IF StartIndex(p) = 0 THEN 0 ELSE Find(stream[p].buffer, "}", StartIndex(p))

\* complete_buffer[end_index + 1:].strip() (views.py 1085).
Rest(p) == Strip(SubSeq(stream[p].buffer, EndIndex(p) + 1, Len(stream[p].buffer)))

\* views.py 1071-1089: one turn of the while loop, up to the yield when the
\* object has data.
StreamParse(p) ==
  /\ stream[p].pc = "parse"
  /\ IF StartIndex(p) # 0 /\ EndIndex(p) # 0
     THEN LET json_str == SubSeq(stream[p].buffer, StartIndex(p), EndIndex(p))
          IN  IF ~ParseOk(json_str)
              THEN stream' = [stream EXCEPT ![p].pc = "iter"]
              ELSE IF HasData(json_str)
              THEN stream' = [stream EXCEPT ![p].events = Append(@, "data"),
                                ![p].payloads = Append(@, Data(json_str)),
                                ![p].pc = "yield"]
              ELSE stream' = [stream EXCEPT ![p].buffer = Rest(p)]
     ELSE stream' = [stream EXCEPT ![p].pc = "iter"]
  /\ UNCHANGED store

\* The consumer takes the next event: the generator goes on after the
\* yield of views.py 1083.
StreamResume(p) ==
  /\ stream[p].pc = "yield"
  /\ stream' = [stream EXCEPT ![p].buffer = Rest(p), ![p].pc = "parse"]
  /\ UNCHANGED store

\* The client has gone: StreamingHttpResponse.close() closes the
\* generator, GeneratorExit is raised at the yield.
StreamClose(p) ==
  /\ stream[p].pc = "yield"
  /\ stream' = [stream EXCEPT ![p].pc = "closed"]
  /\ UNCHANGED store

\* views.py 1092-1095: threading.Thread(target=self.save_response_to_db,
\* ...).start(), after the for loop.
StreamStart(p) ==
  /\ stream[p].pc = "start"
  /\ stream' = [stream EXCEPT ![p].started = @ + 1, ![p].pc = "done"]
  /\ UNCHANGED store

\* Every request has its own generator: the streams of the workers run
\* side by side and share nothing.
StreamNext ==
  \E p \in Workers :
    \/ StreamPost(p)
    \/ StreamChunk(p)
    \/ StreamParse(p)
    \/ StreamResume(p)
    \/ StreamClose(p)
    \/ StreamStart(p)

StreamSpec == Init /\ [][StreamNext]_vars

\* ---------------------------------------------------------- the trainees
\* The requests of the trainee endpoints a run may serve.
MaxRequests == 4

\* Python None where the value beside it is a text: texts are sequences of
\* characters, and "null" is no character.
Null == <<"null">>

\* The answer of the second question is the JSON null.
ItemQz1 ==
  [type |-> "assessment", assessmentType |-> "quiz", title |-> "Qz1",
   questions |-> <<[question |-> "q1", answer |-> <<"A">>, order |-> 1],
                   [question |-> "q2", answer |-> Null, order |-> 2]>>]

ItemQz2 ==
  [type |-> "assessment", assessmentType |-> "quiz", title |-> "Qz2",
   questions |-> <<[question |-> "q3", answer |-> <<"b">>, order |-> 1]>>]

\* A lesson and a quiz of two questions in the first chapter, a quiz in the
\* second.
DocQuiz(t) ==
  [title |-> t, description |-> "d",
   chapters |-> <<[title |-> "Ch1", content |-> <<ItemL1, ItemQz1>>],
                  [title |-> "Ch2", content |-> <<ItemQz2>>]>>]

\* The bodies of the imports the trainees work on.
LearnBodies == {[curriculum |-> DocQuiz("A")]}

UpsertToLearn(p) == UpsertOf(p, LearnBodies)

\* The Trainee rows (models.py 29-37): trainees 1 and 3 are active, trainee
\* 2 was soft-deleted, and no other key is in use.
Trainees ==
  {[id |-> 1, is_deleted |-> FALSE], [id |-> 2, is_deleted |-> TRUE],
   [id |-> 3, is_deleted |-> FALSE]}

\* The keys a request may name.
TraineeKeys == {1, 2, 3, 4}

\* Trainee.objects.filter(is_deleted=False) has a row with the key
\* (views.py 89, get_object of lines 114 and 155, and line 763).
HasTrainee(pk) == \E t \in Trainees : t.id = pk /\ ~t.is_deleted

\* get_object() found no row: Http404, which the framework answers.
NotFound == Detail(404, "Not found.")

\* Curriculum.objects.get(id=curriculum_id, is_deleted=False) finds a row
\* (views.py 124 and 167).
HasCurriculum(curriculum_id) ==
  \E c \in Stored("Curriculum") : c.id = curriculum_id /\ ~c.is_deleted

\* A committed row of one of the tables is soft-deleted: the row stays,
\* its flag is set.
SoftDeleteIn(tables) ==
  /\ \E t \in tables : \E r \in db[t] :
       /\ r.call \in committed
       /\ ~r.is_deleted
       /\ db' = [db EXCEPT ![t] = (@ \ {r}) \cup {[r EXCEPT !.is_deleted = TRUE]}]
  /\ UNCHANGED <<nextId, committed, calls, pc, req, loc, log>>

\* A view that runs in one step: the request is logged with its response,
\* and with commit the rows it wrote are committed when it returns
\* (transaction.atomic, or autocommit of the single statements).
Serve(p, handler, data, response, commit) ==
  /\ Answer(p, handler, PlainUser, NoUpstream, data, response)
  /\ committed' = IF commit THEN committed \cup {calls + 1} ELSE committed

\* ----------------------------------------------------------- enrollments
\* models.py 198-199: unique_together = ('trainee', 'curriculum'), on the
\* rows of the table whatever their is_deleted.
EnrollmentError(trainee, curriculum) ==
  IF \E e \in Stored("Enrollment") : e.trainee = trainee /\ e.curriculum = curriculum
  THEN "duplicate key value violates unique constraint"
  ELSE NoError

\* views.py 131-135: Enrollment.objects.filter(curriculum=..., trainee=...,
\* is_deleted=False).exists()
IsEnrolled(trainee, curriculum) ==
  \E e \in Stored("Enrollment") :
    e.trainee = trainee /\ e.curriculum = curriculum /\ ~e.is_deleted

\* TraineeViewSet.enroll (views.py 110-146), in transaction.atomic.
\* curriculum_id = 0 stands for a body without the key (None) and for the
\* number 0, which the test of line 117 treats alike.  The insert of line
\* 141 takes a value of the sequence also when the constraint refuses the
\* row; IntegrityError is caught nowhere and leaves the view.
Enroll(p) ==
  /\ pc[p] = "idle"
  /\ calls < MaxRequests
  /\ \E pk \in TraineeKeys, curriculum_id \in 0..nextId["Curriculum"] :
       LET data == [pk |-> pk, curriculum_id |-> curriculum_id]
           row  == [id |-> 0, call |-> 0, is_deleted |-> FALSE,
                    trainee |-> pk, curriculum |-> curriculum_id]
       IN  IF ~HasTrainee(pk)
           THEN Serve(p, "enroll", data, NotFound, FALSE) /\ UNCHANGED <<db, nextId>>
           ELSE IF curriculum_id = 0
           THEN /\ Serve(p, "enroll", data, Detail(400, "curriculum_id is required."), TRUE)
                /\ UNCHANGED <<db, nextId>>
           ELSE IF ~HasCurriculum(curriculum_id)
           THEN /\ Serve(p, "enroll", data, Detail(404, "Curriculum not found."), TRUE)
                /\ UNCHANGED <<db, nextId>>
           ELSE IF IsEnrolled(pk, curriculum_id)
           THEN /\ Serve(p, "enroll", data,
                     Detail(400, "Already enrolled in this curriculum."), TRUE)
                /\ UNCHANGED <<db, nextId>>
           ELSE IF EnrollmentError(pk, curriculum_id) # NoError
           THEN /\ Serve(p, "enroll", data, Unhandled, FALSE)
                /\ nextId' = [nextId EXCEPT !["Enrollment"] = @ + 1]
                /\ UNCHANGED db
           ELSE /\ Serve(p, "enroll", data,
                     [NoResp EXCEPT !.kind = "json", !.status = 201,
                                    !.id = nextId["Enrollment"]], TRUE)
                /\ Insert("Enrollment", <<row>>, calls + 1)

\* Imports, enrollments and soft deletes, one request at a time.
EnrollNext ==
  \/ \E p \in {Min(Workers)} :
       /\ Alone(p)
       /\ UpsertToLearn(p) \/ Statement(p) \/ Enroll(p)
       /\ UNCHANGED stream
  \/ (Idle /\ SoftDeleteIn({"Curriculum", "Enrollment"}) /\ UNCHANGED stream)

EnrollSpec == Init /\ [][EnrollNext]_vars

\* ---------------------------------------------------------- the answers
\* str.lower() on the letters the texts of the model are made of.
LowerChar(c) ==
  CASE c = "A" -> "a"
    [] c = "B" -> "b"
    [] c = "N" -> "n"
    [] OTHER   -> c

Lower(text) == [i \in 1..Len(text) |-> LowerChar(text[i])]

\* str(question.correct_answer): the text itself, and "None" for None.
Str(value) == IF value = Null THEN <<"N", "o", "n", "e">> ELSE value

\* views.py 771-773 (hasattr(question, "correct_answer") holds for every
\* Question): answer.strip().lower() ==
\* str(question.correct_answer).strip().lower()
IsCorrect(answer, correct_answer) ==
  Lower(Strip(answer)) = Lower(Strip(Str(correct_answer)))

\* The texts a trainee submits.
Answers == {<<"a", " ">>, <<"N", "o", "n", "e">>}

\* request.data of submit_answer: 0 and the empty text stand for a missing
\* field, which line 756 treats like a falsy one.  The complete bodies,
\* and those with one missing field, an unknown or soft-deleted trainee, or
\* a question key that is not in use.
SubmitBodies ==
  {[trainee_id |-> t, question_id |-> q, answer |-> a] :
     t \in {1, 3}, q \in 1..(nextId["Question"] - 1), a \in Answers}
  \cup {[trainee_id |-> t, question_id |-> 1, answer |-> <<"a", " ">>] : t \in {0, 2, 4}}
  \cup {[trainee_id |-> 1, question_id |-> q, answer |-> <<"a", " ">>] :
          q \in {0, nextId["Question"]}}
  \cup {[trainee_id |-> 1, question_id |-> 1, answer |-> <<>>]}

\* Question.objects.get(id=question_id, is_deleted=False) finds a row
\* (views.py 764).
HasQuestion(question_id) ==
  \E q \in Stored("Question") : q.id = question_id /\ ~q.is_deleted

\* The row update_or_create looks up (views.py 775-777): trainee and
\* question, whatever is_deleted.
AnswersOf(trainee, question) ==
  {a \in Stored("TraineeAnswer") : a.trainee = trainee /\ a.question = question}

\* Mutant of Updated: the stored answer is kept, is_correct is updated.
UpdatedKeepingAnswer(row, answer, is_correct) ==
  [row EXCEPT !.is_correct = is_correct]

\* update_or_create with defaults (views.py 778-781) on a row it found.
Updated(row, answer, is_correct) ==
  [row EXCEPT !.answer = answer, !.is_correct = is_correct]

\* Response({"created": ..., "is_correct": ..., "trainee_answer": ...})
\* (views.py 785-789).
Submitted(id, created, is_correct) ==
  [kind |-> "json", status |-> IF created THEN 201 ELSE 200, detail |-> "",
   id |-> id, title |-> "", description |-> "", chapters |-> <<>>,
   created |-> created, is_correct |-> is_correct]

\* TraineeAnswerViewSet.submit_answer (views.py 745-789), in
\* transaction.atomic.
SubmitAnswer(p) ==
  /\ pc[p] = "idle"
  /\ calls < MaxRequests
  /\ \E data \in SubmitBodies :
       IF data.trainee_id = 0 \/ data.question_id = 0 \/ Len(data.answer) = 0
       THEN /\ Serve(p, "submit_answer", data,
                 Detail(400, "trainee_id, question_id, and answer are required."), TRUE)
            /\ UNCHANGED <<db, nextId>>
       ELSE IF ~HasTrainee(data.trainee_id) \/ ~HasQuestion(data.question_id)
       THEN /\ Serve(p, "submit_answer", data,
                 Detail(404, "Invalid trainee or question."), TRUE)
            /\ UNCHANGED <<db, nextId>>
       ELSE LET is_correct == IsCorrect(data.answer,
                                Row("Question", data.question_id).correct_answer)
                found == AnswersOf(data.trainee_id, data.question_id)
                row   == [id |-> 0, call |-> 0, is_deleted |-> FALSE,
                          trainee |-> data.trainee_id, question |-> data.question_id,
                          answer |-> data.answer, is_correct |-> is_correct]
            IN  IF found = {}
                THEN /\ Serve(p, "submit_answer", data,
                          Submitted(nextId["TraineeAnswer"], TRUE, is_correct), TRUE)
                     /\ Insert("TraineeAnswer", <<row>>, calls + 1)
                ELSE \E old \in found :
                     /\ Serve(p, "submit_answer", data,
                          Submitted(old.id, FALSE, is_correct), TRUE)
                     /\ db' = [db EXCEPT !["TraineeAnswer"] =
                                 (@ \ {old}) \cup {Updated(old, data.answer, is_correct)}]
                     /\ UNCHANGED nextId

\* ------------------------------------------------------ progress_summary
RECURSIVE Gcd(_, _)
Gcd(a, b) == IF b = 0 THEN a ELSE Gcd(b, a % b)

\* The quotient n / d of Python, kept exact: a fraction in lowest terms.
Fraction(n, d) == [num |-> n \div Gcd(n, d), den |-> d \div Gcd(n, d)]

\* Mutant of Percent: the share of 1, not of 100.
PercentOfOne(correct, total) ==
  IF total > 0 THEN Fraction(correct, total) ELSE Fraction(0, 1)

\* views.py 285: (data["correct"] / data["total"] * 100) if
\* data["total"] > 0 else 0
Percent(correct, total) ==
  IF total > 0
  THEN Fraction(Fraction(correct, total).num * 100, Fraction(correct, total).den)
  ELSE Fraction(0, 1)

\* views.py 247-250: TraineeAnswer.objects.filter(trainee_id=trainee_id,
\* is_deleted=False)
TraineeAnswers(trainee_id) ==
  {a \in Stored("TraineeAnswer") : a.trainee = trainee_id /\ ~a.is_deleted}

\* views.py 256: ans.question.assessment.chapter
ChapterOf(ans) ==
  Row("Chapter", Row("Assessment", Row("Question", ans.question).assessment).chapter)

\* views.py 255: ans.question.assessment.chapter.curriculum
CurriculumOf(ans) == Row("Curriculum", ChapterOf(ans).curriculum)

\* views.py 253-296: the groups of the answers.  The queryset has no
\* order_by: the members of each list are modelled, not their order.
Summary(answers) ==
  {[curriculum_id |-> cur.id, curriculum_title |-> cur.title,
    chapters |->
      {[chapter_id |-> ch.id, chapter_title |-> ch.title,
        correctness_percentage |->
          Percent(Cardinality({a \in answers : ChapterOf(a) = ch /\ a.is_correct}),
                  Cardinality({a \in answers : ChapterOf(a) = ch})),
        answers |->
          {[question_id |-> a.question,
            question_text |-> Row("Question", a.question).text,
            answer |-> a.answer, is_correct |-> a.is_correct] :
           a \in {x \in answers : ChapterOf(x) = ch}}] :
       ch \in {ChapterOf(a) : a \in {x \in answers : CurriculumOf(x) = cur}}}] :
   cur \in {CurriculumOf(a) : a \in answers}}

\* TraineeViewSet.progress_summary (views.py 235-298); trainee_id = 0
\* stands for a request without the query parameter.
ProgressSummary(p) ==
  /\ pc[p] = "idle"
  /\ calls < MaxRequests
  /\ \E trainee_id \in {0} \cup {t.id : t \in Trainees} :
       Serve(p, "progress_summary", [trainee_id |-> trainee_id],
         IF trainee_id = 0
         THEN Detail(400, "trainee_id is required.")
         ELSE [kind |-> "json", status |-> 200, detail |-> "", id |-> 0, title |-> "",
               description |-> "", chapters |-> <<>>,
               result |-> Summary(TraineeAnswers(trainee_id))],
         TRUE)
  /\ UNCHANGED <<db, nextId>>

\* Imports, answers, summaries and soft deletes, one request at a time.
AnswerNext ==
  \/ \E p \in {Min(Workers)} :
       /\ Alone(p)
       /\ UpsertToLearn(p) \/ Statement(p) \/ SubmitAnswer(p) \/ ProgressSummary(p)
       /\ UNCHANGED stream
  \/ (Idle /\ SoftDeleteIn({"Question", "TraineeAnswer"}) /\ UNCHANGED stream)

AnswerSpec == Init /\ [][AnswerNext]_vars

\* ---------------------------------------------------------- mark_complete
\* The fields of TraineeCurriculumProgress (models.py 134-166, with the
\* key, the timestamps and the flag of its base classes).
ProgressFields ==
  {"id", "created_at", "updated_at", "is_deleted", "trainee", "curriculum",
   "completed_lessons", "completed_assessments", "last_accessed",
   "progress_status", "progress_percentage"}

\* The keywords of a lookup that name no field of the model: the queryset
\* raises FieldError for them.
UnknownFields(kwargs) == kwargs \ ProgressFields

\* request.data of mark_complete, 0 standing for a missing key: the bodies
\* that name rows in use, and those with no curriculum_id, with neither
\* lesson_id nor assessment_id, or with a key that is not in use.
MarkBodies ==
  {[curriculum_id |-> c, lesson_id |-> l, assessment_id |-> 0] :
     c \in 0..nextId["Curriculum"], l \in 1..nextId["Lesson"]}
  \cup {[curriculum_id |-> c, lesson_id |-> 0, assessment_id |-> a] :
          c \in 1..(nextId["Curriculum"] - 1), a \in 0..nextId["Assessment"]}

\* model.objects.get(id=obj_id, is_deleted=False) finds a row (views.py 191).
HasObject(model, obj_id) ==
  \E r \in Stored(model) : r.id = obj_id /\ ~r.is_deleted

\* TraineeViewSet.mark_complete (views.py 148-232), in transaction.atomic.
\* The lookup of update_or_create (views.py 199-207) names trainee,
\* curriculum and lesson or assessment, and its defaults is_completed:
\* TraineeCurriculumProgress has no field lesson, assessment or
\* is_completed, FieldError leaves the view before any row is written, and
\* lines 211-232 are never reached.
MarkComplete(p) ==
  /\ pc[p] = "idle"
  /\ calls < MaxRequests
  /\ \E pk \in {1, 2}, body \in MarkBodies :
       LET data     == [pk |-> pk, curriculum_id |-> body.curriculum_id,
                        lesson_id |-> body.lesson_id,
                        assessment_id |-> body.assessment_id]
           obj_id   == IF data.lesson_id # 0 THEN data.lesson_id ELSE data.assessment_id
           model    == IF data.lesson_id # 0 THEN "Lesson" ELSE "Assessment"
           obj_type == IF data.lesson_id # 0 THEN "lesson" ELSE "assessment"
       IN  IF ~HasTrainee(pk)
           THEN Serve(p, "mark_complete", data, NotFound, FALSE)
           ELSE IF data.curriculum_id = 0
           THEN Serve(p, "mark_complete", data,
                  Detail(400, "curriculum_id is required."), TRUE)
           ELSE IF ~HasCurriculum(data.curriculum_id)
           THEN Serve(p, "mark_complete", data, Detail(404, "Curriculum not found."), TRUE)
           ELSE IF obj_id = 0
           THEN Serve(p, "mark_complete", data,
                  Detail(400, "Either lesson_id or assessment_id is required."), TRUE)
           ELSE IF ~HasObject(model, obj_id)
           THEN Serve(p, "mark_complete", data, Detail(404, model \o " not found."), TRUE)
           ELSE /\ UnknownFields({"trainee", "curriculum", obj_type}) # {}
                /\ Serve(p, "mark_complete", data, Unhandled, FALSE)
  /\ UNCHANGED <<db, nextId>>

\* Imports, completions and soft deletes, one request at a time.
ProgressNext ==
  \/ \E p \in {Min(Workers)} :
       /\ Alone(p)
       /\ UpsertToLearn(p) \/ Statement(p) \/ MarkComplete(p)
       /\ UNCHANGED stream
  \/ (Idle /\ SoftDeleteIn({"Curriculum", "Lesson"}) /\ UNCHANGED stream)

ProgressSpec == Init /\ [][ProgressNext]_vars

\* --------------------------------------------------------------- the chat
\* The ChatMessage rows the table holds when the run starts.
MaxMessages == 3

\* The ChatConversation rows (models.py 344-360): conversation 1 of
\* PlainUser is active; no other key is in use.
Conversations == {[id |-> 1, user |-> PlainUser, is_deleted |-> FALSE]}

ConversationKeys == {1, 2}

\* get_queryset (views.py 867-875): the active conversations of the user.
HasConversation(pk, user) ==
  \E c \in Conversations : c.id = pk /\ c.user = user /\ ~c.is_deleted

\* A ChatMessage row (models.py 363-389): the messages are of the user and
\* of the AI in turn, and the last one has no text.
Message(i, conversation, is_deleted, created_at) ==
  [id |-> i, call |-> 0, is_deleted |-> is_deleted, conversation |-> conversation,
   sender |-> IF i % 2 = 0 THEN "ai" ELSE "user",
   text |-> IF i = MaxMessages THEN None ELSE "m" \o ToString(i),
   created_at |-> created_at]

\* The tables of the start: each message in conversation 1 or 2, active or
\* soft-deleted, created in the order of the keys or in another order.
MessageTables ==
  {{Message(i, conversation[i], is_deleted[i], created_at[i]) : i \in 1..MaxMessages} :
     conversation \in [1..MaxMessages -> ConversationKeys],
     is_deleted \in [1..MaxMessages -> BOOLEAN],
     created_at \in {[i \in 1..MaxMessages |-> i],
                     [i \in 1..MaxMessages |-> (i % MaxMessages) + 1]}}

\* The database holds messages written before the run (call 0).
ChatInit ==
  /\ db \in {[NoRows EXCEPT !["ChatMessage"] = rows] : rows \in MessageTables}
  /\ nextId = [t \in Tables |-> IF t = "ChatMessage" THEN MaxMessages + 1 ELSE 1]
  /\ committed = {0}
  /\ calls = 0
  /\ pc = [p \in Workers |-> "idle"]
  /\ req = [p \in Workers |-> NoReq]
  /\ loc = [p \in Workers |-> NoLoc]
  /\ log = <<>>
  /\ stream = [p \in Workers |-> NewStream]

\* chat_utils.py 18-21 and 43-46: ChatMessage.objects.filter(
\* conversation_id=conversation_id, is_deleted=False)
MessagesOf(conversation_id) ==
  {m \in Stored("ChatMessage") : m.conversation = conversation_id /\ ~m.is_deleted}

RECURSIVE OldestFirst(_)
\* Mutant of NewestFirst: order_by('created_at').
OldestFirst(rows) ==
  IF rows = {} THEN <<>>
  ELSE LET m == CHOOSE x \in rows : \A y \in rows : x.created_at <= y.created_at
       IN  <<m>> \o OldestFirst(rows \ {m})

RECURSIVE NewestFirst(_)
\* order_by('-created_at') (chat_utils.py 21 and 46).
NewestFirst(rows) ==
  IF rows = {} THEN <<>>
  ELSE LET m == CHOOSE x \in rows : \A y \in rows : y.created_at <= x.created_at
       IN  <<m>> \o NewestFirst(rows \ {m})

\* seq[start:stop] of Python, for start and stop that are not negative.
Slice(seq, start, stop) == SubSeq(seq, start + 1, Min({stop, Len(seq)}))

\* reversed(messages)
Reversed(seq) == [i \in 1..Len(seq) |-> seq[Len(seq) + 1 - i]]

\* msg.created_at.isoformat()
IsoFormat(created_at) == "T" \o ToString(created_at)

\* get_chat_history (chat_utils.py 6-29).
get_chat_history(conversation_id, limit, start) ==
  LET messages == Slice(NewestFirst(MessagesOf(conversation_id)), start, start + limit)
  IN  [i \in 1..Len(messages) |->
        [role |-> Reversed(messages)[i].sender,
         text |-> Reversed(messages)[i].text,
         created_at |-> IsoFormat(Reversed(messages)[i].created_at)]]

\* get_history_for_ai (chat_utils.py 32-53); msg.text or '' gives the empty
\* text for a message without text.
get_history_for_ai(conversation_id, limit) ==
  LET messages == Slice(NewestFirst(MessagesOf(conversation_id)), 0, limit)
  IN  [i \in 1..Len(messages) |->
        [role |-> Reversed(messages)[i].sender,
         content |-> IF Reversed(messages)[i].text = None
                     THEN ""
                     ELSE Reversed(messages)[i].text]]

\* The value a function of chat_utils returned to its caller.
Returned(result) ==
  [kind |-> "value", status |-> 0, detail |-> "", id |-> 0, title |-> "",
   description |-> "", chapters |-> <<>>, result |-> result]

\* A caller applies get_chat_history.
GetChatHistory(p) ==
  /\ pc[p] = "idle"
  /\ calls < MaxCalls
  /\ \E limit \in {0, 1, 2, 10}, start \in {0, 1, 2} :
       Serve(p, "get_chat_history",
         [conversation_id |-> 1, limit |-> limit, start |-> start],
         Returned(get_chat_history(1, limit, start)), TRUE)
  /\ UNCHANGED <<db, nextId>>

\* A caller applies get_history_for_ai.
GetHistoryForAi(p) ==
  /\ pc[p] = "idle"
  /\ calls < MaxCalls
  /\ \E limit \in {1, 10} :
       Serve(p, "get_history_for_ai", [conversation_id |-> 1, limit |-> limit],
         Returned(get_history_for_ai(1, limit)), TRUE)
  /\ UNCHANGED <<db, nextId>>

\* The fields ChatMessageSerializer takes from its input (serializers.py
\* 356-371): the fields of Meta.fields that are not read-only.  The key
\* and the two fields declared with read_only=True are not among them, and
\* conversation is no field of the serializer.
WritableFields ==
  {"text", "image_url", "image_description", "sender", "metadata", "is_deleted"}

\* serializer.validated_data: the keys of the input that are no field of
\* the serializer are dropped.
Validated(message_data) ==
  [k \in DOMAIN message_data \cap WritableFields |-> message_data[k]]

\* ChatMessage.save (models.py 391-395) reads self.conversation before the
\* row is written: RelatedObjectDoesNotExist for a message that was given
\* no conversation.
SaveError(validated_data) ==
  IF Has(validated_data, "conversation")
  THEN NoError
  ELSE "ChatMessage has no conversation."

\* ChatConversationViewSet.redirect (views.py 878-974).  serializer.save()
\* of line 913 creates the message from validated_data, which has no
\* conversation: the exception of ChatMessage.save leaves the view, no row
\* is written, and the lines after 913 (the request to the AI service and
\* the message of the AI) are never reached.
Redirect(p) ==
  /\ pc[p] = "idle"
  /\ calls < MaxCalls
  /\ \E pk \in ConversationKeys, text \in {"", "hi"} :
       LET data == [pk |-> pk, text |-> text]
           message_data ==
             [conversation |-> pk, text |-> text, image_url |-> None,
              image_description |-> None, sender |-> "user"]
       IN  IF text = ""
           THEN Serve(p, "redirect", data, Detail(400, "Message text is required."), TRUE)
           ELSE IF ~HasConversation(pk, PlainUser)
           THEN Serve(p, "redirect", data, NotFound, FALSE)
           ELSE /\ SaveError(Validated(message_data)) # NoError
                /\ Serve(p, "redirect", data, Unhandled, FALSE)
  /\ UNCHANGED <<db, nextId>>

\* Chat requests and calls of the history functions, one at a time, on a
\* table that holds messages.
ChatNext ==
  \E p \in {Min(Workers)} :
    /\ Alone(p)
    /\ Redirect(p) \/ GetChatHistory(p) \/ GetHistoryForAi(p)
    /\ UNCHANGED stream

ChatSpec == ChatInit /\ [][ChatNext]_vars

\* ------------------------------------------------------------- the claims
Calls == 1..Len(log)

\* Call c has been answered.
Finished(c) == log[c].resp.kind # "none"

\* Call c ran upsert_curriculum.
Imported(c) == log[c].handler \in {"upsert", "generate"}

CommittedCurricula == {c \in db["Curriculum"] : c.call \in committed}

Ids(rows) == {r.id : r \in rows}

LessonItems(data) == SelectSeq(ContentItems(data), IsLesson)

AssessmentItems(data) == SelectSeq(ContentItems(data), IsAssessment)

SlideCount(item) == IF Has(item, "content") /\ Has(item.content, "slides") THEN 1 ELSE 0

\* C1: a call that ends with the 500 of an exception leaves none of its
\* rows in the store.
C1_RollbackOnException ==
  \A c \in Calls :
    (Imported(c) /\ log[c].resp.kind = "json" /\ log[c].resp.status = 500)
      => RowsOf(c) = NoRows

\* C2: a call whose title is the title of an existing non-deleted
\* curriculum ends at the title check with the Conflict response, and
\* neither that step nor the call has written a row.
C2_ConflictBeforeWrites ==
  [][\A p \in Workers :
       (/\ pc[p] = "check"
        /\ pc'[p] # "check"
        /\ Has(req[p].data, "title")
        /\ \E c \in CommittedCurricula : c.title = req[p].data.title /\ ~c.is_deleted)
       => /\ pc'[p] = "idle"
          /\ log'[req[p].call].resp
               = Detail(400, "A curriculum with this title already exists.")
          /\ db' = db
          /\ nextId' = nextId
          /\ \A t \in Tables : \A r \in db'[t] : r.call # req[p].call]_vars

\* The same document is imported a second time after the first import
\* succeeded.
C2_Witness ==
  \E c, d \in Calls :
    /\ c < d
    /\ log[c].handler = "upsert" /\ log[d].handler = "upsert"
    /\ log[c].data = log[d].data
    /\ log[c].resp.status = 201
    /\ log[d].resp = Detail(400, "A curriculum with this title already exists.")
    /\ RowsOf(d) = NoRows

\* C3: a call by a user without a Trainer profile that passed the title
\* check ends with 404 "Trainer not found." and writes no row.
C3_NoTrainerNoRows ==
  [][\A p \in Workers :
       (pc[p] = "createCurriculum" /\ pc'[p] # pc[p] /\ req[p].user = PlainUser)
       => /\ pc'[p] = "idle"
          /\ log'[req[p].call].resp = Detail(404, "Trainer not found.")
          /\ db' = db
          /\ nextId' = nextId
          /\ \A t \in Tables : \A r \in db'[t] : r.call # req[p].call]_vars

\* A user without a Trainer profile got 404 from upsert while the store
\* held rows of an earlier import, and the call wrote nothing.
C3_Witness ==
  \E c \in Calls :
    /\ log[c].handler = "upsert"
    /\ log[c].user = PlainUser
    /\ log[c].resp.status = 404
    /\ db["Lesson"] # {}
    /\ RowsOf(c) = NoRows

\* No two content items of one chapter have the same title.
UniqueTitles(data) ==
  LET es == ContentItems(data)
  IN  \A i, j \in 1..Len(es) :
        (i # j /\ es[i].idx = es[j].idx)
          => Get(es[i].item, "title", "") # Get(es[j].item, "title", "")

\* The rows of the call are those of the document: the i-th chapter row (by
\* id) is the i-th chapter, the k-th lesson row is the k-th lesson item and
\* points to the row of its chapter, and so on down to the materials and
\* the questions.
Linked(data, call) ==
  LET R   == RowsOf(call)
      chs == SortIds(Ids(R["Chapter"]))
      ls  == SortIds(Ids(R["Lesson"]))
      as  == SortIds(Ids(R["Assessment"]))
      les == LessonItems(data)
      aes == AssessmentItems(data)
      res(k) == Get(les[k].item, "resources", <<>>)
      qs(k)  == Get(aes[k].item, "questions", <<>>)
  IN  /\ Cardinality(R["Curriculum"]) = 1
      /\ Len(chs) = Len(chapters_data(data))
      /\ \A i \in 1..Len(chs) :
           /\ Row("Chapter", chs[i]).title = chapters_data(data)[i].title
           /\ \E c \in R["Curriculum"] : c.id = Row("Chapter", chs[i]).curriculum
      /\ Len(ls) = Len(les)
      /\ \A k \in 1..Len(ls) :
           /\ Row("Lesson", ls[k]).title = les[k].item.title
           /\ Row("Lesson", ls[k]).chapter = chs[les[k].idx]
           /\ Cardinality({m \in R["Materials"] : m.lesson = ls[k]})
                = Len(res(k)) + SlideCount(les[k].item)
           /\ \A i \in 1..Len(res(k)) :
                \E m \in R["Materials"] :
                  m.lesson = ls[k] /\ m.url = Get(res(k)[i], "url", "")
      /\ Len(as) = Len(aes)
      /\ \A k \in 1..Len(as) :
           /\ Row("Assessment", as[k]).title = Get(aes[k].item, "title", "")
           /\ Row("Assessment", as[k]).chapter = chs[aes[k].idx]
           /\ Cardinality({q \in R["Question"] : q.assessment = as[k]}) = Len(qs(k))
           /\ \A i \in 1..Len(qs(k)) :
                \E q \in R["Question"] :
                  q.assessment = as[k] /\ q.text = Get(qs(k)[i], "question", "")
      /\ \A m \in R["Materials"] : m.lesson \in Ids(R["Lesson"])
      /\ \A q \in R["Question"] : q.assessment \in Ids(R["Assessment"])

\* C4: a successful import of a document with unique titles per chapter
\* creates one row per input item, each under the row of its input parent.
C4_CountsAndParents ==
  \A c \in Calls :
    (Imported(c) /\ log[c].resp.status = 201 /\ UniqueTitles(log[c].data))
      => Linked(log[c].data, c)

\* A document with two chapters, lessons with slides and resources and
\* assessments with questions has been imported with 201.
C4_Witness ==
  \E c \in Calls :
    /\ Imported(c) /\ log[c].resp.status = 201
    /\ UniqueTitles(log[c].data)
    /\ Len(chapters_data(log[c].data)) = 2
    /\ Cardinality(RowsOf(c)["Materials"]) = 3
    /\ Cardinality(RowsOf(c)["Question"]) = 3

\* The response the document and the rows of the call ask for.
ExpectedChapters(data, call) ==
  LET R   == RowsOf(call)
      chs == SortIds(Ids(R["Chapter"]))
      ls  == SortIds(Ids(R["Lesson"]))
      as  == SortIds(Ids(R["Assessment"]))
      les == LessonItems(data)
      aes == AssessmentItems(data)
      lk(i) == SelectSeq([k \in 1..Len(les) |-> k], LAMBDA k : les[k].idx = i)
      ak(i) == SelectSeq([k \in 1..Len(aes) |-> k], LAMBDA k : aes[k].idx = i)
  IN  [i \in 1..Len(chs) |->
        [id |-> chs[i],
         title |-> chapters_data(data)[i].title,
         lessons |-> [n \in 1..Len(lk(i)) |->
            [id |-> ls[lk(i)[n]], title |-> les[lk(i)[n]].item.title]],
         assessments |-> [n \in 1..Len(ak(i)) |->
            [id |-> as[ak(i)[n]], title |-> Get(aes[ak(i)[n]].item, "title", "")]]]]

\* C5: the 201 response lists, per chapter in input order, the lesson and
\* assessment rows created for the items of that chapter.
C5_ResponseListsCreatedRows ==
  \A c \in Calls :
    (Imported(c) /\ log[c].resp.status = 201)
      => log[c].resp.chapters = ExpectedChapters(log[c].data, c)

\* C6: an upsert request that does not succeed ends with a
\* {"detail": message} response of status 400, 404 or 500.
C6_FailuresHaveDetail ==
  \A c \in Calls :
    (Finished(c) /\ log[c].handler = "upsert" /\ log[c].resp.status # 201)
      => (log[c].resp.kind = "json" /\ log[c].resp.status \in {400, 404, 500})

\* C7: no two non-deleted curricula have the same title.
C7_UniqueTitles ==
  \A c1, c2 \in CommittedCurricula :
    (c1.title = c2.title /\ ~c1.is_deleted /\ ~c2.is_deleted) => c1.id = c2.id

\* C8: once a call has passed the title check, nothing stops its insert:
\* with a trainer and a description its step at line 15 inserts its
\* Curriculum row, whatever rows the table holds by then.
C8_InsertNotGuarded ==
  [][\A p \in Workers :
       (/\ pc[p] = "createCurriculum"
        /\ pc'[p] # pc[p]
        /\ req[p].user = TrainerUser
        /\ Has(req[p].data, "description"))
       => /\ pc'[p] = "bulkChapters"
          /\ \E c \in db'["Curriculum"] :
               c.call = req[p].call /\ c.title = req[p].data.title /\ ~c.is_deleted]_vars

\* Two upsert calls with the same title have both answered 201 and both
\* curricula are committed and not deleted.
C8_Witness ==
  \E c, d \in Calls :
    /\ c # d
    /\ log[c].handler = "upsert" /\ log[d].handler = "upsert"
    /\ log[c].resp.status = 201 /\ log[d].resp.status = 201
    /\ \E c1, c2 \in CommittedCurricula :
         /\ c1.call = c /\ c2.call = d
         /\ c1.title = c2.title
         /\ ~c1.is_deleted /\ ~c2.is_deleted

\* C9: every row's parent is a row of the same call.
C9_OwnParentChain ==
  /\ \A r \in db["Chapter"] :
       \E c \in db["Curriculum"] : c.id = r.curriculum /\ c.call = r.call
  /\ \A r \in db["Lesson"] :
       \E c \in db["Chapter"] : c.id = r.chapter /\ c.call = r.call
  /\ \A r \in db["Assessment"] :
       \E c \in db["Chapter"] : c.id = r.chapter /\ c.call = r.call
  /\ \A r \in db["Materials"] :
       \E l \in db["Lesson"] : l.id = r.lesson /\ l.call = r.call
  /\ \A r \in db["Question"] :
       \E a \in db["Assessment"] : a.id = r.assessment /\ a.call = r.call

\* Two calls in flight at once whose rows interleave: the chapters of one
\* come first, the lessons of the other come first, and both have written
\* materials.
C9_Witness ==
  \E p, q \in Workers :
    /\ pc[p] # "idle" /\ pc[q] # "idle"
    /\ \E c1, c2 \in db["Chapter"], l1, l2 \in db["Lesson"], m1, m2 \in db["Materials"] :
         /\ c1.call = req[p].call /\ l1.call = req[p].call /\ m1.call = req[p].call
         /\ c2.call = req[q].call /\ l2.call = req[q].call /\ m2.call = req[q].call
         /\ c1.id < c2.id
         /\ l2.id < l1.id

\* C10: within one call the Curriculum row comes first, all Chapter rows
\* come before any Lesson or Assessment row, all Lesson and Assessment rows
\* come before any Materials or Question row, and each map is the ordered
\* re-fetch of rows inserted before it and is built before the rows that
\* use it.
C10_WriteOrder ==
  /\ \A c \in Calls :
       Imported(c) =>
         LET R    == RowsOf(c)
             data == log[c].data
         IN  /\ (\E t \in Tables \ {"Curriculum"} : R[t] # {})
                  => Cardinality(R["Curriculum"]) = 1
             /\ (R["Lesson"] # {} \/ R["Assessment"] # {})
                  => Cardinality(R["Chapter"]) = Len(chapters_data(data))
             /\ (R["Materials"] # {} \/ R["Question"] # {})
                  => /\ Cardinality(R["Lesson"]) = Len(LessonItems(data))
                     /\ Cardinality(R["Assessment"]) = Len(AssessmentItems(data))
  /\ \A p \in Workers :
       pc[p] # "idle" =>
         LET R    == RowsOf(req[p].call)
             data == req[p].data
         IN  /\ (R["Lesson"] # {} \/ R["Assessment"] # {} \/ loc[p].chapter_map # <<>>)
                  => /\ Cardinality(R["Chapter"]) = Len(chapters_data(data))
                     /\ loc[p].chapter_map = SortIds(Ids(R["Chapter"]))
             /\ (R["Materials"] # {} \/ DOMAIN loc[p].lesson_map # {})
                  => /\ Cardinality(R["Lesson"]) = Len(LessonItems(data))
                     /\ loc[p].lesson_map
                          = ZipMap(lesson_parent(data), SortIds(Ids(R["Lesson"])))
             /\ (R["Question"] # {} \/ DOMAIN loc[p].assessment_map # {})
                  => /\ Cardinality(R["Assessment"]) = Len(AssessmentItems(data))
                     /\ loc[p].assessment_map
                          = ZipMap(assessment_parent(data), SortIds(Ids(R["Assessment"])))

\* A call about to insert its questions: its two chapters, its lessons,
\* assessments and materials are in, its maps are built.
C10_Witness ==
  \E p \in Workers :
    /\ pc[p] = "bulkQuestions"
    /\ Cardinality(RowsOf(req[p].call)["Chapter"]) = 2
    /\ RowsOf(req[p].call)["Materials"] # {}
    /\ RowsOf(req[p].call)["Question"] = {}
    /\ DOMAIN loc[p].assessment_map # {}

RECURSIVE Sum(_)
Sum(ns) == IF Len(ns) = 0 THEN 0 ELSE Head(ns) + Sum(Tail(ns))

\* The position of the last item of es that has the chapter index and the
\* title of es[k] (an assessment without title has the empty title).
LastSame(es, k) ==
  Max({j \in 1..Len(es) :
         /\ es[j].idx = es[k].idx
         /\ Get(es[j].item, "title", "") = Get(es[k].item, "title", "")})

\* The number of Materials rows the lesson item emits.
MaterialCount(item) == SlideCount(item) + Len(Get(item, "resources", <<>>))

QuestionCount(item) == Len(Get(item, "questions", <<>>))

\* The positions in es of the items of chapter i, in input order.
InChapter(es, i) == SelectSeq([k \in 1..Len(es) |-> k], LAMBDA k : es[k].idx = i)

\* C11: after a successful import there is one Lesson row per lesson item
\* and one Assessment row per assessment item; of the items of one chapter
\* that share a title, the row of the last one carries the materials (the
\* questions) of all of them and the rows of the earlier ones carry none;
\* the response lists the id of the last one's row for each of them.
C11_LaterRowTakesAll ==
  \A c \in Calls :
    (Imported(c) /\ log[c].resp.status = 201) =>
      LET R   == RowsOf(c)
          ls  == SortIds(Ids(R["Lesson"]))
          as  == SortIds(Ids(R["Assessment"]))
          les == LessonItems(log[c].data)
          aes == AssessmentItems(log[c].data)
          ch  == log[c].resp.chapters
      IN  /\ Len(ls) = Len(les)
          /\ Len(as) = Len(aes)
          /\ \A k \in 1..Len(les) :
               Cardinality({m \in R["Materials"] : m.lesson = ls[k]})
                 = Sum([j \in 1..Len(les) |->
                     IF LastSame(les, j) = k THEN MaterialCount(les[j].item) ELSE 0])
          /\ \A k \in 1..Len(aes) :
               Cardinality({q \in R["Question"] : q.assessment = as[k]})
                 = Sum([j \in 1..Len(aes) |->
                     IF LastSame(aes, j) = k THEN QuestionCount(aes[j].item) ELSE 0])
          /\ \A i \in 1..Len(ch) :
               /\ ch[i].lessons
                    = [n \in 1..Len(InChapter(les, i)) |->
                        [id |-> ls[LastSame(les, InChapter(les, i)[n])],
                         title |-> les[InChapter(les, i)[n]].item.title]]
               /\ ch[i].assessments
                    = [n \in 1..Len(InChapter(aes, i)) |->
                        [id |-> as[LastSame(aes, InChapter(aes, i)[n])],
                         title |-> Get(aes[InChapter(aes, i)[n]].item, "title", "")]]

\* A document with two lessons titled "L1" in one chapter and two
\* assessments without title has been imported: four rows exist, the first
\* lesson row and the first assessment row have no children, and the
\* response names the second rows twice.
C11_Witness ==
  \E c \in Calls :
    /\ Imported(c) /\ log[c].resp.status = 201
    /\ log[c].data = DocDupTitles("A")
    /\ LET R  == RowsOf(c)
           ls == SortIds(Ids(R["Lesson"]))
           as == SortIds(Ids(R["Assessment"]))
       IN  /\ Len(ls) = 2 /\ Len(as) = 2
           /\ {m \in R["Materials"] : m.lesson = ls[1]} = {}
           /\ Cardinality({m \in R["Materials"] : m.lesson = ls[2]}) = 2
           /\ {q \in R["Question"] : q.assessment = as[1]} = {}
           /\ Cardinality({q \in R["Question"] : q.assessment = as[2]}) = 3
           /\ log[c].resp.chapters[1].lessons[1].id = ls[2]
           /\ log[c].resp.chapters[1].assessments[1].id = as[2]

InputQuestions(data) ==
  LET aes == AssessmentItems(data)
  IN  Flatten([k \in 1..Len(aes) |-> Get(aes[k].item, "questions", <<>>)])

\* C13: the statement of line 110 inserts one Question row per input
\* question, in input order, with the question's text, options and answer,
\* and with its order, or 0 when the question has no order field.
C13_QuestionFields ==
  [][\A p \in Workers :
       (pc[p] = "bulkQuestions" /\ pc'[p] = "respond") =>
         LET new == db'["Question"] \ db["Question"]
             ids == SortIds(Ids(new))
             row(n) == CHOOSE q \in new : q.id = ids[n]
             qs  == InputQuestions(req[p].data)
         IN  /\ Len(ids) = Len(qs)
             /\ \A n \in 1..Len(qs) :
                  /\ row(n).text = Get(qs[n], "question", "")
                  /\ row(n).options = Get(qs[n], "options", <<>>)
                  /\ row(n).correct_answer = Get(qs[n], "answer", "")
                  /\ row(n).order = IF Has(qs[n], "order") THEN qs[n].order ELSE 0]_vars

\* The questions of a document are in: one with the order 2 of the input,
\* and one, the second of its assessment, whose input has no order, with 0.
C13_Witness ==
  \E p \in Workers :
    /\ pc[p] = "respond"
    /\ \E q1, q2 \in RowsOf(req[p].call)["Question"] :
         /\ q1.text = "q1" /\ q1.order = 2 /\ q1.correct_answer = "a"
         /\ q2.text = "q2" /\ q2.order = 0
         /\ q1.assessment = q2.assessment

\* C14: no step of an upsert or generate call removes or changes a row
\* that another call wrote (its is_deleted flag included); the rows the
\* call wrote itself stay unchanged while it runs and go only when its
\* transaction is rolled back; a request answered before upsert_curriculum
\* is entered changes no table.
C14_OnlyInserts ==
  [][/\ \A p \in Workers :
          pc'[p] # pc[p] =>
            \A t \in Tables : \A r \in db[t] :
              (r.call # req[p].call \/ pc'[p] # "idle") => r \in db'[t]
     /\ (Len(log') > Len(log) /\ log'[Len(log')].handler \in {"upsert", "generate"})
          => db' = db]_vars

\* After an import whose curriculum was then soft-deleted, a second import
\* failed in the database and was rolled back: the rows of the first are
\* all there, the deleted curriculum still deleted.
C14_Witness ==
  \E c, d \in Calls :
    /\ c < d
    /\ log[c].resp.status = 201
    /\ Imported(d) /\ log[d].resp.status = 500 /\ d \notin committed
    /\ RowsOf(d) = NoRows
    /\ \E r \in RowsOf(c)["Curriculum"] : r.is_deleted
    /\ RowsOf(c)["Lesson"] # {} /\ RowsOf(c)["Question"] # {}

\* C15: a generate call whose request to the external service raised or
\* was answered with a status other than 200 ends with 502; one answered
\* with a body that is not JSON ends with 502; one answered with a JSON
\* object without a curriculum, or with an empty one, ends with 400; and
\* none of these calls writes a row.
C15_UpstreamFailures ==
  \A c \in Calls :
    (log[c].handler = "generate" /\ Finished(c)) =>
      LET u == log[c].upstream
      IN  /\ (Has(u, "failure") \/ u.status # 200)
               => (log[c].resp.status = 502 /\ RowsOf(c) = NoRows)
          /\ (~Has(u, "failure") /\ u.status = 200 /\ u.kind = "text")
               => (log[c].resp.status = 502 /\ RowsOf(c) = NoRows)
          /\ (~Has(u, "failure") /\ u.status = 200 /\ u.kind = "object"
                /\ DOMAIN Get(u.json, "curriculum", EmptyDoc) = {})
               => (log[c].resp.status = 400 /\ RowsOf(c) = NoRows)

\* C16: a read lists no soft-deleted row: when get_resources answers, the
\* lessons, materials, assessments and questions it lists are not deleted,
\* and when the question list answers, none of its questions is deleted.
C16_ReadsSkipDeleted ==
  [][Len(log') > Len(log) =>
       LET e == log'[Len(log')]
       IN  /\ (e.handler = "get_resources" /\ e.resp.status = 200) =>
                /\ \A l \in e.resp.lessons :
                     /\ ~Row("Lesson", l.id).is_deleted
                     /\ \A m \in l.materials : ~Row("Materials", m).is_deleted
                /\ \A a \in e.resp.assessments :
                     /\ ~Row("Assessment", a.id).is_deleted
                     /\ \A q \in a.questions : ~Row("Question", q).is_deleted
           /\ e.handler = "list_questions" =>
                \A q \in e.resp.questions : ~Row("Question", q).is_deleted]_vars

\* C17: the background thread is started at most once per stream, and
\* only for a stream whose upstream status is 200, whose body has been read
\* to its end and whose events are all out; it is never started when the
\* status is not 200 or an exception of requests was raised; and a stream
\* with status 200 that ended with no exception of requests and with the
\* client still reading has started it exactly once.
C17_ThreadOncePerStream ==
  \A p \in Workers :
    /\ stream[p].started <= 1
    /\ stream[p].started = 1 =>
         /\ stream[p].status = 200
         /\ stream[p].chunks = <<>>
         /\ stream[p].pc = "done"
    /\ (stream[p].status # 200 \/ stream[p].error # "none") => stream[p].started = 0
    /\ (stream[p].pc \in {"done", "crashed"} /\ stream[p].status = 200
          /\ stream[p].error = "none") => stream[p].started = 1

\* The values of Materials.MATERIAL_TYPE_CHOICES (models.py 105-111).
MaterialTypes == {"video", "image", "audio", "file", "json"}

\* C18: the type of every Materials row is one of video, image, audio,
\* file and json.
C18_MaterialTypes ==
  \A m \in db["Materials"] : m.type \in MaterialTypes

\* The documents of the pool that upsert_curriculum accepts.
ValidDocs ==
  {DocIntro(t) : t \in Titles} \cup {DocTwo(t) : t \in Titles}
    \cup {DocNoChapters("A"), DocDupTitles("A")}

\* Every import of an acceptable document by the trainer has ended with
\* 201 and a committed curriculum of its own, or with the Conflict response.
CreatedOrConflict ==
  \A c \in Calls :
    (Finished(c) /\ Imported(c) /\ log[c].user = TrainerUser
       /\ log[c].data \in ValidDocs) =>
      \/ /\ log[c].resp.status = 201
         /\ \E r \in CommittedCurricula :
              r.call = c /\ r.id = log[c].resp.id /\ r.title = log[c].data.title
      \/ log[c].resp = Detail(400, "A curriculum with this title already exists.")

\* C19: the title check answers 400 exactly when a non-deleted curriculum
\* has the title, for a user with and for a user without a Trainer profile
\* alike, and otherwise lets the call go on to the trainer lookup, deleted
\* curricula of that title notwithstanding; an import by the trainer that
\* is not stopped there ends with 201 and its new curriculum.
C19_OnlyLiveTitlesBlock ==
  [][/\ \A p \in Workers :
          (pc[p] = "check" /\ pc'[p] # "check" /\ Has(req[p].data, "title")) =>
            IF \E c \in CommittedCurricula :
                 c.title = req[p].data.title /\ ~c.is_deleted
            THEN /\ pc'[p] = "idle"
                 /\ log'[req[p].call].resp
                      = Detail(400, "A curriculum with this title already exists.")
            ELSE pc'[p] = "createCurriculum"
     /\ CreatedOrConflict']_vars

\* A curriculum was imported and soft-deleted, and a second import with
\* the same title by the trainer has ended with 201: both rows are there,
\* the first one deleted.
C19_Witness ==
  \E c, d \in Calls :
    /\ c < d
    /\ Imported(d) /\ log[d].user = TrainerUser /\ log[d].resp.status = 201
    /\ \E r1, r2 \in CommittedCurricula :
         /\ r1.call = c /\ r2.call = d
         /\ r1.title = r2.title
         /\ r1.is_deleted /\ ~r2.is_deleted

\* The content items of the document whose type is type, in input order.
TypedItems(data, type) ==
  SelectSeq(ContentItems(data), LAMBDA e : Has(e.item, "type") /\ e.item.type = type)

\* The content items whose type is neither "lesson" nor "assessment".
OtherItems(data) ==
  SelectSeq(ContentItems(data),
            LAMBDA e : Has(e.item, "type") /\ e.item.type \notin {"lesson", "assessment"})

\* C20: an import of an otherwise acceptable document that holds items of
\* another type does not end with 500, and when it ends with 201 its rows
\* and its response are those of the lesson and assessment items alone:
\* the k-th Lesson (Assessment) row is the k-th lesson (assessment) item
\* under the row of its chapter, the Materials and Question rows are those
\* of these items, and each chapter of the response lists one entry per
\* lesson item and one per assessment item of the chapter.
C20_OtherTypesSkipped ==
  \A c \in Calls :
    (Imported(c) /\ Finished(c) /\ log[c].data \in ValidDocs
       /\ Len(OtherItems(log[c].data)) > 0) =>
      /\ log[c].resp.status # 500
      /\ log[c].resp.status = 201 =>
           LET R   == RowsOf(c)
               chs == SortIds(Ids(R["Chapter"]))
               ls  == SortIds(Ids(R["Lesson"]))
               as  == SortIds(Ids(R["Assessment"]))
               les == TypedItems(log[c].data, "lesson")
               aes == TypedItems(log[c].data, "assessment")
               ch  == log[c].resp.chapters
           IN  /\ Len(ls) = Len(les)
               /\ Len(as) = Len(aes)
               /\ \A k \in 1..Len(les) :
                    /\ Row("Lesson", ls[k]).title = les[k].item.title
                    /\ Row("Lesson", ls[k]).chapter = chs[les[k].idx]
               /\ \A k \in 1..Len(aes) :
                    /\ Row("Assessment", as[k]).title = Get(aes[k].item, "title", "")
                    /\ Row("Assessment", as[k]).chapter = chs[aes[k].idx]
               /\ Cardinality(R["Materials"])
                    = Sum([k \in 1..Len(les) |-> MaterialCount(les[k].item)])
               /\ Cardinality(R["Question"])
                    = Sum([k \in 1..Len(aes) |-> QuestionCount(aes[k].item)])
               /\ \A i \in 1..Len(ch) :
                    /\ Len(ch[i].lessons) = Len(InChapter(les, i))
                    /\ Len(ch[i].assessments) = Len(InChapter(aes, i))
                    /\ \A n \in 1..Len(ch[i].lessons) :
                         ch[i].lessons[n].title = les[InChapter(les, i)[n]].item.title
                    /\ \A n \in 1..Len(ch[i].assessments) :
                         ch[i].assessments[n].title
                           = Get(aes[InChapter(aes, i)[n]].item, "title", "")

\* A document whose second chapter holds a lesson, an item of type
\* "video" and an assessment has been imported with 201: the chapter has
\* one Lesson row and one Assessment row, and the response lists these two.
C20_Witness ==
  \E c \in Calls :
    /\ Imported(c) /\ log[c].resp.status = 201
    /\ Len(OtherItems(log[c].data)) = 1
    /\ OtherItems(log[c].data)[1].idx = 2
    /\ LET chs == SortIds(Ids(RowsOf(c)["Chapter"]))
       IN  /\ Len(chs) = 2
           /\ Cardinality({l \in RowsOf(c)["Lesson"] : l.chapter = chs[2]}) = 1
           /\ Cardinality({a \in RowsOf(c)["Assessment"] : a.chapter = chs[2]}) = 1
           /\ Len(log[c].resp.chapters[2].lessons) = 1
           /\ Len(log[c].resp.chapters[2].assessments) = 1

\* C21: an enroll call of an active trainee that names an active
\* curriculum is decided by the active enrollments only: when the trainee
\* has no Enrollment with is_deleted = false in the curriculum (an earlier
\* one may have been soft-deleted) it is answered 201 and exactly one
\* Enrollment is created; otherwise it is answered 400 'Already enrolled in
\* this curriculum.' and nothing is created; and a trainee never has two
\* active Enrollments in one curriculum.
C21_EnrollByActiveRows ==
  [][/\ (/\ Len(log') = Len(log) + 1
         /\ log'[Len(log')].handler = "enroll"
         /\ HasTrainee(log'[Len(log')].data.pk)
         /\ HasCurriculum(log'[Len(log')].data.curriculum_id))
          => IF \E e \in db["Enrollment"] :
                  /\ e.trainee = log'[Len(log')].data.pk
                  /\ e.curriculum = log'[Len(log')].data.curriculum_id
                  /\ ~e.is_deleted
             THEN /\ log'[Len(log')].resp.status = 400
                  /\ log'[Len(log')].resp.detail = "Already enrolled in this curriculum."
                  /\ db' = db
             ELSE /\ log'[Len(log')].resp.status = 201
                  /\ db["Enrollment"] \subseteq db'["Enrollment"]
                  /\ Cardinality(db'["Enrollment"] \ db["Enrollment"]) = 1
     /\ \A e, f \in db'["Enrollment"] :
          (e.trainee = f.trainee /\ e.curriculum = f.curriculum
             /\ ~e.is_deleted /\ ~f.is_deleted) => e = f]_vars

\* C22: there is never more than one TraineeAnswer row for a trainee and a
\* question.  A submit_answer call with its three fields, an active
\* trainee and an active question is answered 201 with created = true when
\* the pair had no row and 200 with created = false when it had one, and
\* afterwards the row of the pair holds the submitted answer and the
\* is_correct of the response, the other rows being as before; a call with
\* a missing field is answered 400, one naming an unknown or soft-deleted
\* trainee or question 404, and both change no row.
C22_OneRowPerPair ==
  [][/\ \A a, b \in db'["TraineeAnswer"] :
          (a.trainee = b.trainee /\ a.question = b.question) => a = b
     /\ (Len(log') = Len(log) + 1 /\ log'[Len(log')].handler = "submit_answer") =>
          LET e       == log'[Len(log')]
              d       == e.data
              missing == d.trainee_id = 0 \/ d.question_id = 0 \/ d.answer = <<>>
              unknown ==
                \/ ~\E t \in Trainees : t.id = d.trainee_id /\ ~t.is_deleted
                \/ ~\E q \in db["Question"] : q.id = d.question_id /\ ~q.is_deleted
              OfPair(a) == a.trainee = d.trainee_id /\ a.question = d.question_id
              before  == {a \in db["TraineeAnswer"] : OfPair(a)}
              after   == {a \in db'["TraineeAnswer"] : OfPair(a)}
          IN  IF missing THEN e.resp.status = 400 /\ db' = db
              ELSE IF unknown THEN e.resp.status = 404 /\ db' = db
              ELSE /\ e.resp.status = IF before = {} THEN 201 ELSE 200
                   /\ e.resp.created = (before = {})
                   /\ \E a \in after :
                        /\ after = {a}
                        /\ a.answer = d.answer
                        /\ a.is_correct = e.resp.is_correct
                   /\ {a \in db'["TraineeAnswer"] : ~OfPair(a)}
                        = {a \in db["TraineeAnswer"] : ~OfPair(a)}
                   /\ \A t \in Tables \ {"TraineeAnswer"} : db'[t] = db[t]]_vars

\* A trainee answered a question (201), then answered it again with another
\* text (200): the one row of the pair holds the second text.  A call with
\* a missing field or an unknown trainee was refused in between.
C22_Witness ==
  \E c, d \in Calls :
    /\ c < d
    /\ log[c].handler = "submit_answer" /\ log[d].handler = "submit_answer"
    /\ log[c].resp.status = 201 /\ log[d].resp.status = 200
    /\ log[c].data.trainee_id = log[d].data.trainee_id
    /\ log[c].data.question_id = log[d].data.question_id
    /\ log[c].data.answer # log[d].data.answer
    /\ \E a \in db["TraineeAnswer"] :
         /\ a.trainee = log[d].data.trainee_id
         /\ a.question = log[d].data.question_id
         /\ a.answer = log[d].data.answer
    /\ \E x \in Calls :
         /\ c < x /\ x < d
         /\ log[x].handler = "submit_answer"
         /\ log[x].resp.status \in {400, 404}

\* C23: an accepted submit_answer call reports is_correct = true exactly
\* when the correct_answer of the question is not null and equals the
\* submitted answer once both are trimmed and put in lower case; for a
\* question whose correct_answer is null it never reports true.
C23_CorrectIffEqual ==
  \A c \in Calls :
    (log[c].handler = "submit_answer" /\ log[c].resp.status \in {200, 201}) =>
      LET correct_answer == Row("Question", log[c].data.question_id).correct_answer
      IN  log[c].resp.is_correct =
            (/\ correct_answer # Null
             /\ Lower(Strip(log[c].data.answer)) = Lower(Strip(correct_answer)))

\* C25: a progress_summary call for a trainee is answered 200, and every
\* answer of the trainee with is_deleted = false is listed in exactly one
\* group, that of the curriculum and chapter of the assessment of its
\* question; nothing else is listed; and the correctness_percentage of a
\* group times the number of its answers is 100 times the number of its
\* answers with is_correct = true, so it lies between 0 and 100.
C25_SummaryGroups ==
  [][(Len(log') = Len(log) + 1 /\ log'[Len(log')].handler = "progress_summary"
        /\ log'[Len(log')].data.trainee_id # 0) =>
       LET e      == log'[Len(log')]
           mine   == {a \in db["TraineeAnswer"] :
                        a.trainee = e.data.trainee_id /\ ~a.is_deleted}
           groups == UNION {{[cur |-> c.curriculum_id, ch |-> g] : g \in c.chapters} :
                            c \in e.resp.result}
           Lists(g, a) == \E x \in g.ch.answers :
                            /\ x.question_id = a.question
                            /\ x.answer = a.answer
                            /\ x.is_correct = a.is_correct
           chapter(a) == (CHOOSE s \in db["Assessment"] :
                            s.id = (CHOOSE q \in db["Question"] : q.id = a.question).assessment
                         ).chapter
           curriculum(a) == (CHOOSE c \in db["Chapter"] : c.id = chapter(a)).curriculum
       IN  /\ e.resp.status = 200
           /\ \A a \in mine :
                /\ Cardinality({g \in groups : Lists(g, a)}) = 1
                /\ \A g \in groups :
                     Lists(g, a) => g.ch.chapter_id = chapter(a) /\ g.cur = curriculum(a)
           /\ \A g \in groups :
                LET members == {a \in mine : chapter(a) = g.ch.chapter_id}
                    correct == {a \in members : a.is_correct}
                    percent == g.ch.correctness_percentage
                IN  /\ Cardinality(g.ch.answers) = Cardinality(members)
                    /\ members # {}
                    /\ percent.den > 0
                    /\ percent.num * Cardinality(members)
                         = 100 * Cardinality(correct) * percent.den
                    /\ 0 <= percent.num /\ percent.num <= 100 * percent.den]_vars

\* A summary with two groups, one of a chapter where the trainee answered
\* right and one of a chapter where the trainee answered wrong.
C25_Witness ==
  \E c \in Calls :
    /\ log[c].handler = "progress_summary"
    /\ log[c].resp.status = 200
    /\ \E r \in log[c].resp.result :
         /\ Cardinality(r.chapters) = 2
         /\ \E g \in r.chapters : g.correctness_percentage = [num |-> 100, den |-> 1]
         /\ \E g \in r.chapters : g.correctness_percentage = [num |-> 0, den |-> 1]

Bytes(p) == Flatten(stream[p].body)

RECURSIVE MatchEnd(_, _, _)
\* The position of the "}" that closes the object entered before position
\* i at the given depth, 0 when the text ends first.
MatchEnd(text, i, depth) ==
  IF i > Len(text) THEN 0
  ELSE IF text[i] = "{" THEN MatchEnd(text, i + 1, depth + 1)
  ELSE IF text[i] = "}"
  THEN IF depth = 1 THEN i ELSE MatchEnd(text, i + 1, depth - 1)
  ELSE MatchEnd(text, i + 1, depth)

RECURSIVE TopObjects(_)
\* The JSON objects of a text, each up to the brace that closes it.
TopObjects(text) ==
  LET start == Find(text, "{", 1)
      end   == MatchEnd(text, start + 1, 1)
  IN  IF start = 0 \/ end = 0 THEN <<>>
      ELSE <<SubSeq(text, start, end)>> \o TopObjects(SubSeq(text, end + 1, Len(text)))

\* The text is a sequence of well-formed JSON objects: objects whose
\* members are data, other members and nested objects, with nothing but
\* white space between them.
WellFormed(text) ==
  /\ \A i \in 1..Len(text) : text[i] \in {"{", "}", "d", "u", "e", " "}
  /\ SelectSeq(text, LAMBDA t : t # " ") = SelectSeq(Flatten(TopObjects(text)), LAMBDA t : t # " ")
  /\ TopObjects(text) # <<>>

\* The letters of the data of an object, none when it has no data.
DataLetters(object) ==
  IF \E i \in 1..Len(object) : object[i] = "e"
  THEN <<>>
  ELSE SelectSeq(object, LAMBDA t : t \in {"d", "u"})

\* C26: a stream that received, with status 200, a sequence of well-formed
\* JSON objects and ended with no exception has emitted exactly one data
\* event for each object with a non-empty data, in the order of the
\* objects, and none for the others; this also when an object before them
\* holds a nested object and so fails to parse when cut at the first "}".
C26_OneEventPerObject ==
  \A p \in Workers :
    (/\ stream[p].pc = "done"
     /\ stream[p].status = 200
     /\ stream[p].error = "none"
     /\ ~DecodeFails(Bytes(p))
     /\ WellFormed(Decoded(Bytes(p))))
      => /\ Len(stream[p].events) = Len(stream[p].payloads)
         /\ [k \in 1..Len(stream[p].payloads) |->
               SelectSeq(stream[p].payloads[k], LAMBDA t : t # " ")]
              = SelectSeq([k \in 1..Len(TopObjects(Decoded(Bytes(p)))) |->
                             DataLetters(TopObjects(Decoded(Bytes(p)))[k])],
                          LAMBDA letters : letters # <<>>)

\* C27: two streams that received the same bytes with status 200, cut into
\* chunks at different positions, and ended with no exception have emitted
\* the same events with the same texts.
C27_ChunksDoNotMatter ==
  \A p, q \in Workers :
    (/\ stream[p].pc = "done" /\ stream[q].pc = "done"
     /\ stream[p].status = 200 /\ stream[q].status = 200
     /\ stream[p].error = "none" /\ stream[q].error = "none"
     /\ Bytes(p) = Bytes(q))
      => /\ stream[p].events = stream[q].events
         /\ stream[p].payloads = stream[q].payloads

\* C28: a redirect call with a text on an active conversation of the user
\* leaves the message of the user in the conversation: either it is
\* answered 400 and the conversation has gained exactly that message, or it
\* is answered 200 and the conversation has gained exactly two messages,
\* that of the user and then one of the AI; and no step removes a message.
C28_UserMessageKept ==
  [][/\ db["ChatMessage"] \subseteq db'["ChatMessage"]
     /\ (/\ Len(log') = Len(log) + 1
         /\ log'[Len(log')].handler = "redirect"
         /\ log'[Len(log')].data.text # ""
         /\ HasConversation(log'[Len(log')].data.pk, log'[Len(log')].user))
          => LET added == db'["ChatMessage"] \ db["ChatMessage"]
                 pk    == log'[Len(log')].data.pk
             IN  /\ \A m \in added : m.conversation = pk
                 /\ \E u \in added :
                      /\ u.sender = "user"
                      /\ u.text = log'[Len(log')].data.text
                      /\ \/ /\ log'[Len(log')].resp.status = 400
                            /\ added = {u}
                         \/ /\ log'[Len(log')].resp.status = 200
                            /\ \E a \in added :
                                 /\ a.sender = "ai"
                                 /\ a.id > u.id
                                 /\ added = {u, a}]_vars

\* C29: get_chat_history and get_history_for_ai return messages of the
\* conversation with is_deleted = false only, at most limit of them: those
\* created last once the start newest ones are skipped (none is skipped by
\* get_history_for_ai), from the oldest to the newest.
C29_NewestOldestFirst ==
  \A c \in Calls :
    log[c].handler \in {"get_chat_history", "get_history_for_ai"} =>
      LET d        == log[c].data
          result   == log[c].resp.result
          start    == IF log[c].handler = "get_chat_history" THEN d.start ELSE 0
          live     == {m \in db["ChatMessage"] :
                         m.conversation = d.conversation_id /\ ~m.is_deleted}
          Newer(m) == Cardinality({s \in live : s.created_at > m.created_at})
          expected == {m \in live : Newer(m) >= start /\ Newer(m) < start + d.limit}
      IN  /\ Len(result) <= d.limit
          /\ Len(result) = Cardinality(expected)
          /\ \A k \in 1..Len(result) :
               \E m \in expected :
                 /\ Cardinality({s \in expected : s.created_at < m.created_at}) = k - 1
                 /\ result[k].role = m.sender
                 /\ IF log[c].handler = "get_chat_history"
                    THEN result[k].text = m.text
                    ELSE result[k].content = IF m.text = None THEN "" ELSE m.text

\* The conversation holds three active messages that were not created in
\* the order of their keys; get_chat_history skipped the newest and
\* returned the two before it, and get_history_for_ai returned the newest.
C29_Witness ==
  \E c, d \in Calls :
    /\ log[c].handler = "get_chat_history"
    /\ log[c].data.start = 1 /\ log[c].data.limit = 2
    /\ Len(log[c].resp.result) = 2
    /\ log[d].handler = "get_history_for_ai"
    /\ log[d].data.limit = 1
    /\ Len(log[d].resp.result) = 1
    /\ \E m, n \in db["ChatMessage"] : m.id < n.id /\ m.created_at > n.created_at

====
